---- MODULE Spec2Model ----
(***************************************************************************)
(* State-machine model of frappe_devops_monitor: log tailing and           *)
(* classification (log_collector.py, api.py), the settings document and    *)
(* its cache (doctype/devops_monitor_settings), metric sampling and alert  *)
(* evaluation (monitor.py).                                                *)
(*                                                                         *)
(* Text is modelled at character level: a string is a sequence of          *)
(* one-character strings.  Each subsystem has its own specification over   *)
(* the shared variables; the variables of the other subsystems stay at     *)
(* their idle values.                                                      *)
(***************************************************************************)
EXTENDS Integers, Sequences, FiniteSets, TLC

VARIABLES
    line,          \* the log line handed to the level detectors
    level,         \* [collector, api]: what each detector returned for line
    parsed,        \* [collector, api]: what each parser made of line
    fs,            \* file system: path -> content (a string) or Missing
    logs,          \* the last log-reading operation and what it returned
    utilCall,      \* the last call of a utils.py function and what it returned
    settingsDoc,   \* the stored DevOps Monitor Settings document (or NoDoc)
    cache,         \* the value of cache key "devops_monitor_settings"
    saveResult,    \* outcome of the last settings save
    readers,       \* per get_settings call: its position and local values
    writes,        \* number of settings writes whose on_update has run
    install,       \* the setup calls made, and the settings rows of the site
    metrics,       \* [pending, committed]: DevOps Metric records
    clock,         \* now_datetime(), a counter
    monitor,       \* the running collect_metrics pass (position, outcomes)
    notifications, \* [pending, committed]: Notification Log records
    alertPass,     \* what the last check_alerts pass computed
    logEntries,    \* [pending, committed]: DevOps Log Entry records
    savePass,      \* what the last save_to_db call did
    sweep,         \* what the last clear_old_logs call did
    ingest,        \* what the collect_all_logs runs did
    apiCall        \* the last call of an api function and what it returned

vars == <<line, level, parsed, fs, logs, utilCall, settingsDoc, cache, saveResult, readers,
          writes, install, metrics, clock, monitor, notifications, alertPass,
          logEntries, savePass, sweep, ingest, apiCall>>

levelVars == <<line, level, parsed>>
logVars == <<fs, logs, utilCall, apiCall>>
settingsVars == <<settingsDoc, cache, saveResult, readers, writes, install>>
metricVars == <<metrics, clock, monitor>>
alertVars == <<notifications, alertPass>>
saveVars == <<logEntries, savePass, sweep, ingest>>

None == "None"

SeqToSet(seq) == {seq[i] : i \in 1..Len(seq)}

Min(a, b) == IF a <= b THEN a ELSE b
Max(a, b) == IF a >= b THEN a ELSE b

(***************************************************************************)
(* Characters and strings                                                  *)
(***************************************************************************)
LowerCase == <<"a","b","c","d","e","f","g","h","i","j","k","l","m",
               "n","o","p","q","r","s","t","u","v","w","x","y","z">>
UpperCase == <<"A","B","C","D","E","F","G","H","I","J","K","L","M",
               "N","O","P","Q","R","S","T","U","V","W","X","Y","Z">>

\* str.upper() on one ASCII character
UpperChar(c) ==
    IF \E i \in 1..26 : LowerCase[i] = c
    THEN UpperCase[CHOOSE i \in 1..26 : LowerCase[i] = c]
    ELSE c

\* str.upper()
Upper(s) == [i \in 1..Len(s) |-> UpperChar(s[i])]

\* Python's `kw in s` for strings
Contains(s, kw) ==
    \E i \in 0..(Len(s) - Len(kw)) : SubSeq(s, i + 1, i + Len(kw)) = kw

KW_CRITICAL == <<"C","R","I","T","I","C","A","L">>
KW_FATAL == <<"F","A","T","A","L">>
KW_EMERGENCY == <<"E","M","E","R","G","E","N","C","Y">>
KW_ERROR == <<"E","R","R","O","R">>
KW_WARNING == <<"W","A","R","N","I","N","G">>
KW_WARN == <<"W","A","R","N">>
KW_INFO == <<"I","N","F","O">>
KW_DEBUG == <<"D","E","B","U","G">>

Levels == {"DEBUG", "INFO", "WARNING", "ERROR", "CRITICAL"}

(***************************************************************************)
(* Level detection                                                         *)
(***************************************************************************)
\* LogCollector._detect_log_level
DetectLogLevel(l) ==
    LET line_upper == Upper(l) IN
    IF \E x \in {KW_CRITICAL, KW_FATAL, KW_EMERGENCY} : Contains(line_upper, x)
    THEN "CRITICAL"
    ELSE IF Contains(line_upper, KW_ERROR) THEN "ERROR"
    ELSE IF \E x \in {KW_WARNING, KW_WARN} : Contains(line_upper, x)
    THEN "WARNING"
    ELSE IF Contains(line_upper, KW_INFO) THEN "INFO"
    ELSE IF Contains(line_upper, KW_DEBUG) THEN "DEBUG"
    ELSE "INFO"

\* api.detect_log_level
ApiDetectLogLevel(l) ==
    LET line_upper == Upper(l) IN
    IF Contains(line_upper, KW_CRITICAL) \/ Contains(line_upper, KW_FATAL)
    THEN "CRITICAL"
    ELSE IF Contains(line_upper, KW_ERROR) THEN "ERROR"
    ELSE IF Contains(line_upper, KW_WARNING) \/ Contains(line_upper, KW_WARN)
    THEN "WARNING"
    ELSE IF Contains(line_upper, KW_INFO) THEN "INFO"
    ELSE IF Contains(line_upper, KW_DEBUG) THEN "DEBUG"
    ELSE "INFO"

(***************************************************************************)
(* Specification SpecLevel: the two level detectors applied to one line.   *)
(***************************************************************************)
MaxWords == 2

W_fatal == <<"f","a","t","a","l">>
W_Emergency == <<"E","m","e","r","g","e","n","c","y">>
W_warn == <<"w","a","r","n">>
W_Info == <<"I","n","f","o">>
W_other == <<"x","#">>

Words == {KW_CRITICAL, W_fatal, W_Emergency, KW_ERROR, KW_WARNING, W_warn,
          W_Info, KW_DEBUG, W_other, <<>>}

RECURSIVE JoinWith(_, _)
\* sep.join(parts)
JoinWith(parts, sep) ==
    IF Len(parts) = 0 THEN <<>>
    ELSE IF Len(parts) = 1 THEN parts[1]
    ELSE parts[1] \o sep \o JoinWith(Tail(parts), sep)

SeqsUpTo(S, n) == UNION {[1..k -> S] : k \in 0..n}

LineInputs == {JoinWith(ws, <<" ">>) : ws \in SeqsUpTo(Words, MaxWords)}

\* no parser has run
NoParsed ==
    [collector |-> [done |-> FALSE,
                    entry |-> [timestamp |-> <<>>, source |-> "", level |-> "",
                               message |-> <<>>, raw |-> <<>>]],
     api |-> [done |-> FALSE, timestamp |-> <<>>]]

LevelIdle ==
    /\ line = <<>>
    /\ level = [collector |-> None, api |-> None]
    /\ parsed = NoParsed

CollectorDetect ==
    /\ level.collector = None
    /\ level' = [level EXCEPT !.collector = DetectLogLevel(line)]
    /\ UNCHANGED <<line, parsed, logVars, settingsVars, metricVars, alertVars,
                   saveVars>>

ApiDetect ==
    /\ level.api = None
    /\ level' = [level EXCEPT !.api = ApiDetectLogLevel(line)]
    /\ UNCHANGED <<line, parsed, logVars, settingsVars, metricVars, alertVars,
                   saveVars>>

(***************************************************************************)
(* Regular expressions of log_collector.py and api.py.  A pattern is a     *)
(* sequence of items [cls, ch, min, max]: a character class repeated       *)
(* between min and max times (max = -1: unbounded), matched greedily with  *)
(* backtracking as Python's re does.                                       *)
(***************************************************************************)
Digits == {"0","1","2","3","4","5","6","7","8","9"}
Letters == {LowerCase[i] : i \in 1..26} \cup {UpperCase[i] : i \in 1..26}
WordChars == Letters \cup Digits \cup {"_"}
Whitespace == {" ", "\t", "\n", "\r"}

InClass(c, item) ==
    CASE item.cls = "d" -> c \in Digits
      [] item.cls = "w" -> c \in WordChars
      [] item.cls = "s" -> c \in Whitespace
      [] OTHER -> c = item.ch

D(n, m) == [cls |-> "d", ch |-> "", min |-> n, max |-> m]
W(n, m) == [cls |-> "w", ch |-> "", min |-> n, max |-> m]
S(n, m) == [cls |-> "s", ch |-> "", min |-> n, max |-> m]
Lit(c) == [cls |-> "lit", ch |-> c, min |-> 1, max |-> 1]

RECURSIVE RunLength(_, _, _, _)
\* how many characters of s after position p are in the item's class, up to cap
RunLength(s, p, item, cap) ==
    IF cap = 0 \/ p >= Len(s) \/ ~InClass(s[p + 1], item) THEN 0
    ELSE 1 + RunLength(s, p + 1, item, cap - 1)

RECURSIVE MatchFrom(_, _, _, _)
RECURSIVE TryCount(_, _, _, _, _)
\* end position of the match of items k.. of pat after position p, or -1
MatchFrom(pat, k, s, p) ==
    IF k > Len(pat) THEN p
    ELSE LET item == pat[k]
             cap == IF item.max = -1 THEN Len(s) ELSE item.max
         IN TryCount(pat, k, s, p, RunLength(s, p, item, cap))

\* greedy: the largest repetition count c that lets the rest match
TryCount(pat, k, s, p, c) ==
    IF c < pat[k].min THEN -1
    ELSE LET e == MatchFrom(pat, k + 1, s, p + c)
         IN IF e # -1 THEN e ELSE TryCount(pat, k, s, p, c - 1)

\* \d{4}-\d{2}-\d{2}\s+\d{2}:\d{2}:\d{2}
IsoItems ==
    <<D(4, 4), Lit("-"), D(2, 2), Lit("-"), D(2, 2), S(1, -1),
      D(2, 2), Lit(":"), D(2, 2), Lit(":"), D(2, 2)>>
\* \d{2}/\w+/\d{4}:\d{2}:\d{2}:\d{2}
CommonLogItems ==
    <<D(2, 2), Lit("/"), W(1, -1), Lit("/"), D(4, 4), Lit(":"),
      D(2, 2), Lit(":"), D(2, 2), Lit(":"), D(2, 2)>>
\* \w{3}\s+\d{1,2}\s+\d{2}:\d{2}:\d{2}
SyslogItems ==
    <<W(3, 3), S(1, -1), D(1, 2), S(1, -1),
      D(2, 2), Lit(":"), D(2, 2), Lit(":"), D(2, 2)>>
\* \w+\s+\d{1,2}\s+\d{2}:\d{2}:\d{2}   (api.py)
ApiSyslogItems ==
    <<W(1, -1), S(1, -1), D(1, 2), S(1, -1),
      D(2, 2), Lit(":"), D(2, 2), Lit(":"), D(2, 2)>>

\* the optional, greedy group (?:\.\d+)? after position e
WithFraction(s, e) ==
    LET n == IF e < Len(s) /\ s[e + 1] = "."
             THEN RunLength(s, e + 1, D(1, -1), Len(s)) ELSE 0
    IN IF n >= 1 THEN e + 1 + n ELSE e

\* a trailing \s* after position e
WithSpaces(s, e) == e + RunLength(s, e, S(0, -1), Len(s))

\* The three timestamp patterns of LogCollector, in the order of the code;
\* frac: followed by (?:\.\d+)?
PATTERNS ==
    <<[items |-> IsoItems, frac |-> TRUE],
      [items |-> CommonLogItems, frac |-> FALSE],
      [items |-> SyslogItems, frac |-> FALSE]>>

\* The three patterns of api.extract_timestamp
API_PATTERNS ==
    <<[items |-> IsoItems, frac |-> FALSE],
      [items |-> CommonLogItems, frac |-> FALSE],
      [items |-> ApiSyslogItems, frac |-> FALSE]>>

\* end of the match of pattern pt starting right after position p, or -1
MatchEnd(pt, s, p) ==
    LET e == MatchFrom(pt.items, 1, s, p)
    IN IF e = -1 THEN -1 ELSE IF pt.frac THEN WithFraction(s, e) ELSE e

\* re.search(pattern, s): <<start, end>> of the leftmost match, or <<>>
Search(pt, s) ==
    LET starts == {p \in 0..(Len(s) - 1) : MatchEnd(pt, s, p) # -1}
    IN IF starts = {} THEN <<>>
       ELSE LET p == CHOOSE q \in starts : \A r \in starts : q <= r
            IN <<p + 1, MatchEnd(pt, s, p)>>

\* Python's None where a string is expected (falsy, like the empty string)
NoMatch == <<>>

\* the pattern whose match begins leftmost in the line wins
FirstMatchLeftmost(pts, k, s) ==
    LET hits == {i \in k..Len(pts) : Search(pts[i], s) # <<>>}
    IN IF hits = {} THEN NoMatch
       ELSE LET i == CHOOSE h \in hits :
                         \A g \in hits :
                             \/ Search(pts[h], s)[1] < Search(pts[g], s)[1]
                             \/ (Search(pts[h], s)[1] = Search(pts[g], s)[1] /\ h <= g)
            IN SubSeq(s, Search(pts[i], s)[1], Search(pts[i], s)[2])

RECURSIVE FirstMatch(_, _, _)
\* `for pattern in patterns: match = re.search(...); if match: return group(1)`
FirstMatch(pts, k, s) ==
    IF k > Len(pts) THEN NoMatch
    ELSE LET m == Search(pts[k], s)
         IN IF m # <<>> THEN SubSeq(s, m[1], m[2])
            ELSE FirstMatch(pts, k + 1, s)

\* LogCollector._extract_timestamp
ExtractTimestamp(l) == FirstMatch(PATTERNS, 1, l)

\* api.extract_timestamp
ApiExtractTimestamp(l) == FirstMatch(API_PATTERNS, 1, l)

RECURSIVE ReSub(_, _, _)
\* re.sub(pattern + r'\s*', '', s), scanning from position p
ReSub(pt, s, p) ==
    IF p >= Len(s) THEN <<>>
    ELSE LET starts == {q \in p..(Len(s) - 1) : MatchEnd(pt, s, q) # -1}
         IN IF starts = {} THEN SubSeq(s, p + 1, Len(s))
            ELSE LET q == CHOOSE r \in starts : \A t \in starts : r <= t
                 IN SubSeq(s, p + 1, q)
                    \o ReSub(pt, s, WithSpaces(s, MatchEnd(pt, s, q)))

RECURSIVE LStrip(_)
LStrip(s) ==
    IF Len(s) > 0 /\ s[1] \in Whitespace THEN LStrip(Tail(s)) ELSE s

RECURSIVE RStrip(_)
RStrip(s) ==
    IF Len(s) > 0 /\ s[Len(s)] \in Whitespace
    THEN RStrip(SubSeq(s, 1, Len(s) - 1)) ELSE s

\* str.strip()
Strip(s) == RStrip(LStrip(s))

\* LogCollector._clean_log_message
CleanLogMessage(l) ==
    Strip(ReSub(PATTERNS[3], ReSub(PATTERNS[2], ReSub(PATTERNS[1], l, 0), 0), 0))

\* LogCollector._parse_log_line; now: now_datetime().isoformat()
ParseLogLine(l, source, now) ==
    LET ts == ExtractTimestamp(l)
    IN [timestamp |-> IF ts # NoMatch THEN ts ELSE now,
        source |-> source,
        level |-> DetectLogLevel(l),
        message |-> CleanLogMessage(l),
        raw |-> l]

(***************************************************************************)
(* String order (Python compares strings by code point) and sorting        *)
(***************************************************************************)
\* the characters of the model's alphabet in ASCII order
Ascii ==
    <<"\t", "\n", "\r", " ", "#", "+", "-", ".", "/",
      "0","1","2","3","4","5","6","7","8","9", ":">>
    \o UpperCase \o <<"_">> \o LowerCase

Ord(c) == CHOOSE i \in 1..Len(Ascii) : Ascii[i] = c

RECURSIVE StrLess(_, _)
\* a < b for Python strings
StrLess(a, b) ==
    IF Len(b) = 0 THEN FALSE
    ELSE IF Len(a) = 0 THEN TRUE
    ELSE IF a[1] = b[1] THEN StrLess(Tail(a), Tail(b))
    ELSE Ord(a[1]) < Ord(b[1])

RECURSIVE InsertDesc(_, _)
\* insert e behind every element whose timestamp is >= e's (stable)
InsertDesc(sorted, e) ==
    IF Len(sorted) = 0 THEN <<e>>
    ELSE IF StrLess(sorted[1].timestamp, e.timestamp)
    THEN <<e>> \o sorted
    ELSE <<sorted[1]>> \o InsertDesc(Tail(sorted), e)

RECURSIVE SortedDesc(_, _)
\* sorted(entries, key=lambda x: x.get('timestamp', ''), reverse=True):
\* a stable sort; acc holds the entries before position Len(acc) + 1, sorted
SortedDesc(entries, acc) ==
    IF Len(entries) = 0 THEN acc
    ELSE SortedDesc(Tail(entries), InsertDesc(acc, entries[1]))

\* seq[:n] for n >= 0
Prefix(seq, n) == SubSeq(seq, 1, Min(n, Len(seq)))

\* seq[-n:] for n >= 0 (seq[-0:] is the whole sequence)
LastN(seq, n) ==
    IF n = 0 THEN seq ELSE SubSeq(seq, Max(1, Len(seq) - n + 1), Len(seq))

RECURSIVE Split(_, _)
\* str.split(sep) for a one-character separator
Split(s, sep) ==
    IF \A i \in 1..Len(s) : s[i] # sep THEN <<s>>
    ELSE LET i == CHOOSE j \in 1..Len(s) :
                      s[j] = sep /\ \A k \in 1..(j - 1) : s[k] # sep
         IN <<SubSeq(s, 1, i - 1)>> \o Split(SubSeq(s, i + 1, Len(s)), sep)

(***************************************************************************)
(* Files                                                                   *)
(***************************************************************************)
\* bytes estimated per line
COLLECTOR_BYTES_PER_LINE == 300
API_BYTES_PER_LINE == 200

Missing == [exists |-> FALSE, content |-> <<>>]
File(c) == [exists |-> TRUE, content |-> c]

\* (source, file) pairs of collect_frappe_logs
FrappeLogFiles == <<"frappe.log", "web.log", "worker.log", "scheduler.log">>
\* (source, file) pairs of collect_error_logs
ErrorLogFiles == <<"error.log", "web.error.log">>
NginxLogTypes == {"access", "error"}
NginxLogFile(log_type) ==
    IF log_type = "access" THEN "nginx/access.log" ELSE "nginx/error.log"
SupervisorLogFile == "supervisord.log"

\* api.get_logs: log_type -> files
ApiLogFiles ==
    [frappe |-> <<"frappe.log", "web.log", "worker.log">>,
     error |-> <<"error.log", "web.error.log">>,
     scheduler |-> <<"scheduler.log">>,
     nginx_access |-> <<"nginx/access.log">>,
     nginx_error |-> <<"nginx/error.log">>,
     supervisor |-> <<"supervisord.log">>,
     system |-> <<"syslog", "messages">>]

Paths ==
    {FrappeLogFiles[i] : i \in 1..4} \cup {ErrorLogFiles[i] : i \in 1..2}
    \cup {NginxLogFile(t) : t \in NginxLogTypes} \cup {SupervisorLogFile}
    \cup {"syslog", "messages"}

\* os.path.basename
Basename(path) ==
    CASE path = "nginx/access.log" -> "access.log"
      [] path = "nginx/error.log" -> "error.log"
      [] OTHER -> path

(***************************************************************************)
(* Reading log files                                                       *)
(***************************************************************************)
\* the lines that log files of the model are made of
LINE_A == <<"2","0","2","4","-","0","1","-","1","5"," ","1","0",":","3","0",":","0","0"," ","E","R","R","O","R"," ","d","i","s","k"," ","f","u","l","l">>
LINE_B == <<"2","0","2","4","-","0","1","-","1","6"," ","0","9",":","0","0",":","0","0"," ","i","n","f","o"," ","o","k">>
LineKinds == {LINE_A, LINE_B, <<>>}

\* ParseLogLine for the lines of LineKinds, evaluated once
ParsedKinds == [l \in LineKinds |-> ParseLogLine(l, "", <<>>)]

\* LogCollector._parse_log_line (looked up in ParsedKinds when possible)
ParseLine(l, source, now) ==
    IF l \in LineKinds
    THEN [ParsedKinds[l] EXCEPT
             !.source = source,
             !.timestamp = IF @ # NoMatch THEN @ ELSE now]
    ELSE ParseLogLine(l, source, now)

\* the part of the file read after f.seek(max(0, file_size - bytes_to_read))
SeekRead(content, lines, bytesPerLine) ==
    LET file_size == Len(content)
        bytes_to_read == Min(lines * bytesPerLine, file_size)
    IN SubSeq(content, Max(0, file_size - bytes_to_read) + 1, file_size)

RECURSIVE ParseLines(_, _, _)
\* `for line in ...: if line.strip(): parsed_logs.append(parse(line))`
ParseLines(ls, source, now) ==
    IF Len(ls) = 0 THEN <<>>
    ELSE (IF Strip(ls[1]) # <<>> THEN <<ParseLine(ls[1], source, now)>> ELSE <<>>)
         \o ParseLines(Tail(ls), source, now)

\* LogCollector._read_log_file on an existing, readable file
ReadLogFile(content, lines, source, now) ==
    LET log_lines == Split(SeekRead(content, lines, COLLECTOR_BYTES_PER_LINE), "\n")
    IN ParseLines(LastN(log_lines, lines), source, now)

RECURSIVE ReadGroup(_, _, _, _)
\* `for source, log_file in log_files: if os.path.exists(log_file): logs.extend(...)`
ReadGroup(files, f, lines, now) ==
    IF Len(files) = 0 THEN <<>>
    ELSE (IF f[files[1]].exists
          THEN ReadLogFile(f[files[1]].content, lines, files[1], now)
          ELSE <<>>)
         \o ReadGroup(Tail(files), f, lines, now)

\* LogCollector.collect_frappe_logs
CollectFrappeLogs(settings, f, lines, now) ==
    IF ~settings.exists THEN <<>>
    ELSE Prefix(SortedDesc(ReadGroup(FrappeLogFiles, f, lines, now), <<>>), lines)

\* LogCollector.collect_error_logs
CollectErrorLogs(settings, f, lines, now) ==
    IF ~settings.exists THEN <<>>
    ELSE Prefix(SortedDesc(ReadGroup(ErrorLogFiles, f, lines, now), <<>>), lines)

\* LogCollector.collect_nginx_logs
CollectNginxLogs(settings, f, log_type, lines, now) ==
    IF ~settings.exists THEN <<>>
    ELSE IF f[NginxLogFile(log_type)].exists
    THEN ReadLogFile(f[NginxLogFile(log_type)].content, lines,
                     IF log_type = "access" THEN "nginx-access" ELSE "nginx-error",
                     now)
    ELSE <<>>

\* LogCollector.collect_supervisor_logs
CollectSupervisorLogs(settings, f, lines, now) ==
    IF ~settings.exists THEN <<>>
    ELSE IF f[SupervisorLogFile].exists
    THEN ReadLogFile(f[SupervisorLogFile].content, lines, "supervisor", now)
    ELSE <<>>

RECURSIVE ApiParseLines(_, _, _)
\* the body of api.get_logs' loop over log_lines[-lines:], search and level unset
ApiParseLines(ls, source, now) ==
    IF Len(ls) = 0 THEN <<>>
    ELSE (IF Strip(ls[1]) # <<>>
          THEN LET ts == ApiExtractTimestamp(ls[1])
               IN <<[source |-> source,
                     message |-> ls[1],
                     level |-> ApiDetectLogLevel(ls[1]),
                     timestamp |-> IF ts # NoMatch THEN ts ELSE now]>>
          ELSE <<>>)
         \o ApiParseLines(Tail(ls), source, now)

RECURSIVE ApiReadGroup(_, _, _, _)
\* api.get_logs: `for log_file in files: if os.path.exists(log_file): ...`
ApiReadGroup(files, f, lines, now) ==
    IF Len(files) = 0 THEN <<>>
    ELSE (IF f[files[1]].exists
          THEN ApiParseLines(
                   LastN(Split(SeekRead(f[files[1]].content, lines,
                                        API_BYTES_PER_LINE), "\n"), lines),
                   Basename(files[1]), now)
          ELSE <<>>)
         \o ApiReadGroup(Tail(files), f, lines, now)

\* api.get_logs(log_type, lines): the "logs" of its payload
GetLogs(f, log_type, lines, now) ==
    Prefix(SortedDesc(ApiReadGroup(ApiLogFiles[log_type], f, lines, now), <<>>),
           lines)

(***************************************************************************)
(* The DevOps Monitor Settings document of the site                        *)
(***************************************************************************)
\* setup.create_default_settings: the document it inserts
DefaultSettings ==
    [exists |-> TRUE,
     enable_monitoring |-> TRUE,
     enable_alerts |-> TRUE,
     cpu_threshold |-> 80,
     memory_threshold |-> 85,
     disk_threshold |-> 90,
     alert_recipients |-> <<>>,
     log_retention_days |-> 30,
     frappe_log_path |-> "~/frappe-bench/logs",
     nginx_log_path |-> "/var/log/nginx",
     supervisor_log_path |-> "/var/log/supervisor"]

\* no document for the site: frappe.get_doc raises, _get_settings returns None
NoDoc == [DefaultSettings EXCEPT !.exists = FALSE]

(***************************************************************************)
(* Specification SpecLog: a file system with a few log files, and the      *)
(* log-reading operations applied to it.                                   *)
(***************************************************************************)
MaxFiles == 2
MaxFileLines == 3
MaxLines == 2

\* now_datetime().isoformat()
NowStamps == {<<"2","0","2","4","-","0","1","-","1","5","T","1","2",":","0","0",":","0","0",".","5">>}

NoLogs == [op |-> "none", arg |-> "", lines |-> 0, result |-> <<>>]

\* no api function was called
NoApiCall == [op |-> "none"]

\* no utils.py function was called
NoCall ==
    [op |-> "none", files |-> <<>>, term |-> <<>>, limit |-> 0, result |-> <<>>]

LogIdle ==
    /\ fs = [p \in Paths |-> Missing]
    /\ logs = NoLogs
    /\ utilCall = NoCall
    /\ apiCall = NoApiCall

SegmentSeqsUpTo(n) == UNION {[1..k -> LineKinds] : k \in 1..n}

RECURSIVE Contents(_, _)
\* the ways to give each path of P at least one segment, budget in all
Contents(P, budget) ==
    IF P = {} THEN {<<>>}
    ELSE LET p == CHOOSE q \in P : TRUE
         IN UNION {{g @@ (p :> segs) : g \in Contents(P \ {p}, budget - Len(segs))} :
                   segs \in SegmentSeqsUpTo(budget - (Cardinality(P) - 1))}

\* at most maxFiles files exist, holding at most maxFileLines "\n"-separated
\* segments in all
FileSystems(maxFiles, maxFileLines) ==
    UNION {{[p \in Paths |-> IF p \in P THEN File(JoinWith(g[p], <<"\n">>))
                             ELSE Missing] : g \in Contents(P, maxFileLines)} :
           P \in {R \in SUBSET Paths : Cardinality(R) <= maxFiles}}

LogInit ==
    /\ fs \in FileSystems(MaxFiles, MaxFileLines)
    /\ logs = NoLogs
    /\ utilCall = NoCall
    /\ apiCall = NoApiCall

DoReadLogFile ==
    \E path \in Paths, lines \in 0..MaxLines, now \in NowStamps :
        /\ logs = NoLogs
        /\ logs' = [op |-> "read_log_file", arg |-> path, lines |-> lines,
                    result |-> IF fs[path].exists
                               THEN ReadLogFile(fs[path].content, lines, path, now)
                               ELSE <<>>]
        /\ UNCHANGED <<fs, utilCall, apiCall, levelVars, settingsVars, metricVars,
                       alertVars, saveVars>>

DoCollectFrappeLogs ==
    \E lines \in 0..MaxLines, now \in NowStamps :
        /\ logs = NoLogs
        /\ logs' = [op |-> "collect_frappe_logs", arg |-> "", lines |-> lines,
                    result |-> CollectFrappeLogs(settingsDoc, fs, lines, now)]
        /\ UNCHANGED <<fs, utilCall, apiCall, levelVars, settingsVars, metricVars,
                       alertVars, saveVars>>

DoCollectErrorLogs ==
    \E lines \in 0..MaxLines, now \in NowStamps :
        /\ logs = NoLogs
        /\ logs' = [op |-> "collect_error_logs", arg |-> "", lines |-> lines,
                    result |-> CollectErrorLogs(settingsDoc, fs, lines, now)]
        /\ UNCHANGED <<fs, utilCall, apiCall, levelVars, settingsVars, metricVars,
                       alertVars, saveVars>>

DoCollectNginxLogs ==
    \E log_type \in NginxLogTypes, lines \in 0..MaxLines, now \in NowStamps :
        /\ logs = NoLogs
        /\ logs' = [op |-> "collect_nginx_logs", arg |-> log_type, lines |-> lines,
                    result |-> CollectNginxLogs(settingsDoc, fs, log_type, lines, now)]
        /\ UNCHANGED <<fs, utilCall, apiCall, levelVars, settingsVars, metricVars,
                       alertVars, saveVars>>

DoCollectSupervisorLogs ==
    \E lines \in 0..MaxLines, now \in NowStamps :
        /\ logs = NoLogs
        /\ logs' = [op |-> "collect_supervisor_logs", arg |-> "", lines |-> lines,
                    result |-> CollectSupervisorLogs(settingsDoc, fs, lines, now)]
        /\ UNCHANGED <<fs, utilCall, apiCall, levelVars, settingsVars, metricVars,
                       alertVars, saveVars>>

\* api.get_logs; without a settings document get_doc raises and the payload
\* is {"success": False, "error": ...}
DoGetLogs ==
    \E log_type \in DOMAIN ApiLogFiles, lines \in 0..MaxLines, now \in NowStamps :
        /\ logs = NoLogs
        /\ logs' = IF settingsDoc.exists
                   THEN [op |-> "get_logs", arg |-> log_type, lines |-> lines,
                         result |-> GetLogs(fs, log_type, lines, now)]
                   ELSE [op |-> "get_logs_error", arg |-> log_type, lines |-> lines,
                         result |-> <<>>]
        /\ UNCHANGED <<fs, utilCall, apiCall, levelVars, settingsVars, metricVars,
                       alertVars, saveVars>>

(***************************************************************************)
(* Settings: validation, the cache of get_settings, and writes             *)
(***************************************************************************)
\* validate with the upper bound of the disk threshold forgotten
ValidateNoDiskUpper(doc) ==
    /\ ~(doc.cpu_threshold < 0 \/ doc.cpu_threshold > 100)
    /\ ~(doc.memory_threshold < 0 \/ doc.memory_threshold > 100)
    /\ ~(doc.disk_threshold < 0)

\* DevOpsMonitorSettings.validate: TRUE when it does not throw
Validate(doc) ==
    /\ ~(doc.cpu_threshold < 0 \/ doc.cpu_threshold > 100)
    /\ ~(doc.memory_threshold < 0 \/ doc.memory_threshold > 100)
    /\ ~(doc.disk_threshold < 0 \/ doc.disk_threshold > 100)

\* the dict get_settings builds from the document
SettingsDict(doc) ==
    [enable_monitoring |-> doc.enable_monitoring,
     enable_alerts |-> doc.enable_alerts,
     cpu_threshold |-> doc.cpu_threshold,
     memory_threshold |-> doc.memory_threshold,
     disk_threshold |-> doc.disk_threshold]

NoCache == [set |-> FALSE, values |-> SettingsDict(DefaultSettings)]
NoSave == [pc |-> "idle", status |-> "none", field |-> "", value |-> 0,
           before |-> NoDoc]
IdleReader == [pc |-> "idle", settings |-> SettingsDict(DefaultSettings)]

NumReaders == 2
MaxWrites == 2
ThresholdInputs == {-1, 0, 100, 101}
ThresholdFields == {"cpu_threshold", "memory_threshold", "disk_threshold"}

\* no setup call was made; the site has one settings row or none
NoSetupCall(doc) ==
    [calls |-> 0, last |-> "none", before |-> doc,
     records |-> IF doc.exists THEN 1 ELSE 0]

SettingsInit ==
    /\ settingsDoc = NoDoc
    /\ cache = NoCache
    /\ saveResult = NoSave
    /\ readers = [r \in 1..NumReaders |-> IdleReader]
    /\ writes = 0
    /\ install = NoSetupCall(NoDoc)

MaxSetupCalls == 2

\* create_default_settings without the test for an existing record
SettingsMissingAlways(doc) == TRUE

\* `if not frappe.db.exists("DevOps Monitor Settings", {"site_name": ...})`
SettingsMissing(doc) == ~doc.exists

\* the body of create_default_settings, reached from `caller`; insert runs
\* validate and then on_update
InsertDefaults(caller) ==
    /\ saveResult.pc = "idle"
    /\ install.calls < MaxSetupCalls
    /\ IF SettingsMissing(settingsDoc) /\ Validate(DefaultSettings)
       THEN /\ settingsDoc' = DefaultSettings
            /\ cache' = NoCache
            /\ install' = [calls |-> install.calls + 1, last |-> caller,
                           before |-> settingsDoc,
                           records |-> install.records + 1]
       ELSE /\ UNCHANGED <<settingsDoc, cache>>
            /\ install' = [calls |-> install.calls + 1, last |-> caller,
                           before |-> settingsDoc,
                           records |-> install.records]
    /\ UNCHANGED <<saveResult, readers, writes>>
    /\ UNCHANGED <<levelVars, logVars, metricVars, alertVars, saveVars>>

\* setup.after_install: create_default_settings(), then roles and workspace
AfterInstall == InsertDefaults("after_install")

\* setup.setup_monitoring: create_default_settings(), then roles and
\* workspace; returns {"success": True, ...}
SetupMonitoring == InsertDefaults("setup_monitoring")

\* setup.create_default_settings called by itself
CreateDefaultSettings == InsertDefaults("create_default_settings")

\* doc.<field> = value; doc.save(): validate, then the database write.  A
\* validation error leaves the stored document as it was; on_update follows
\* a successful write.
SaveSettings ==
    \E field \in ThresholdFields, value \in ThresholdInputs :
        LET doc == [settingsDoc EXCEPT ![field] = value] IN
        /\ settingsDoc.exists
        /\ saveResult.pc = "idle"
        /\ writes < MaxWrites \/ ~Validate(doc)
        /\ IF Validate(doc)
           THEN /\ settingsDoc' = doc
                /\ saveResult' = [pc |-> "on_update", status |-> "written",
                                  field |-> field, value |-> value,
                                  before |-> NoDoc]
           ELSE /\ UNCHANGED settingsDoc
                /\ saveResult' = [pc |-> "idle", status |-> "rejected",
                                  field |-> field, value |-> value,
                                  before |-> settingsDoc]
        /\ UNCHANGED <<cache, readers, writes, install>>
        /\ UNCHANGED <<levelVars, logVars, metricVars, alertVars, saveVars>>

\* DevOpsMonitorSettings.on_update: frappe.cache().delete_key(...)
OnUpdate ==
    /\ saveResult.pc = "on_update"
    /\ cache' = NoCache
    /\ saveResult' = [saveResult EXCEPT !.pc = "idle", !.status = "saved"]
    /\ writes' = writes + 1
    /\ UNCHANGED <<settingsDoc, readers, install>>
    /\ UNCHANGED <<levelVars, logVars, metricVars, alertVars, saveVars>>

\* get_settings, first step: settings = frappe.cache().get_value(...); a hit
\* is returned at once
GetSettingsReadCache(r) ==
    /\ readers[r].pc = "idle"
    /\ readers' = [readers EXCEPT ![r] =
                      IF cache.set
                      THEN [pc |-> "idle", settings |-> cache.values]
                      ELSE [pc |-> "get_doc", settings |-> @.settings]]
    /\ UNCHANGED <<settingsDoc, cache, saveResult, writes, install>>
    /\ UNCHANGED <<levelVars, logVars, metricVars, alertVars, saveVars>>

\* get_settings, on a miss: doc = frappe.get_doc(...), which raises when the
\* site has no document, and the dict is built from it
GetSettingsGetDoc(r) ==
    /\ readers[r].pc = "get_doc"
    /\ readers' = [readers EXCEPT ![r] =
                      IF settingsDoc.exists
                      THEN [pc |-> "set_value", settings |-> SettingsDict(settingsDoc)]
                      ELSE [pc |-> "idle", settings |-> @.settings]]
    /\ UNCHANGED <<settingsDoc, cache, saveResult, writes, install>>
    /\ UNCHANGED <<levelVars, logVars, metricVars, alertVars, saveVars>>

\* get_settings, last step: frappe.cache().set_value(...); return settings
GetSettingsSetValue(r) ==
    /\ readers[r].pc = "set_value"
    /\ cache' = [set |-> TRUE, values |-> readers[r].settings]
    /\ readers' = [readers EXCEPT ![r].pc = "idle"]
    /\ UNCHANGED <<settingsDoc, saveResult, writes, install>>
    /\ UNCHANGED <<levelVars, logVars, metricVars, alertVars, saveVars>>

(***************************************************************************)
(* Metric sampling (monitor.py).  A sampling method is a sequence of       *)
(* steps: a "sample" calls psutil, os or the database and may raise, a     *)
(* "save" is one _save_metric call, whose own failure is caught inside it. *)
(***************************************************************************)
Sample(name) ==
    [kind |-> "sample", type |-> "", name |-> name, unit |-> "", details |-> ""]
Save(type, name, unit) ==
    [kind |-> "save", type |-> type, name |-> name, unit |-> unit, details |-> ""]
SaveWithDetails(type, name, unit) ==
    [kind |-> "save", type |-> type, name |-> name, unit |-> unit,
     details |-> "name,pid"]

\* f"cpu_{i}_usage" and f"top_proc_{i+1}_memory"
CpuUsageNames == <<"cpu_0_usage", "cpu_1_usage", "cpu_2_usage", "cpu_3_usage">>
TopProcNames == <<"top_proc_1_memory", "top_proc_2_memory", "top_proc_3_memory",
                  "top_proc_4_memory", "top_proc_5_memory">>
TOP_PROCESSES == 5

\* SystemMonitor._collect_cpu_metrics
CpuSteps(host) ==
    <<Sample("cpu_percent"), Save("System", "cpu_percent", "%"),
      Sample("cpu_count"), Save("System", "cpu_count", "cores"),
      Sample("cpu_freq")>>
    \o (IF host.cpu_freq THEN <<Save("System", "cpu_frequency", "MHz")>> ELSE <<>>)
    \o (IF host.getloadavg
        THEN <<Sample("getloadavg"),
               Save("System", "load_avg_1min", ""),
               Save("System", "load_avg_5min", ""),
               Save("System", "load_avg_15min", "")>>
        ELSE <<>>)
    \o <<Sample("cpu_percent_percpu")>>
    \o [i \in 1..host.cpus |-> Save("System", CpuUsageNames[i], "%")]

\* SystemMonitor._collect_memory_metrics
MemorySteps(host) ==
    <<Sample("virtual_memory"),
      Save("System", "memory_percent", "%"),
      Save("System", "memory_used_gb", "GB"),
      Save("System", "memory_available_gb", "GB"),
      Save("System", "memory_total_gb", "GB"),
      Sample("swap_memory"),
      Save("System", "swap_percent", "%"),
      Save("System", "swap_used_gb", "GB")>>

\* SystemMonitor._collect_disk_metrics
DiskSteps(host) ==
    <<Sample("disk_usage"),
      Save("System", "disk_percent", "%"),
      Save("System", "disk_used_gb", "GB"),
      Save("System", "disk_free_gb", "GB"),
      Save("System", "disk_total_gb", "GB"),
      Sample("disk_io_counters")>>
    \o (IF host.disk_io
        THEN <<Save("System", "disk_read_mb", "MB"),
               Save("System", "disk_write_mb", "MB")>>
        ELSE <<>>)

\* SystemMonitor._collect_network_metrics
NetworkSteps(host) ==
    <<Sample("net_io_counters"),
      Save("Network", "net_sent_mb", "MB"),
      Save("Network", "net_recv_mb", "MB"),
      Save("Network", "net_packets_sent", "packets"),
      Save("Network", "net_packets_recv", "packets"),
      Save("Network", "net_errors_in", "errors"),
      Save("Network", "net_errors_out", "errors"),
      Sample("net_connections"),
      Save("Network", "net_connections", "connections")>>

\* SystemMonitor._collect_process_metrics
ProcessSteps(host) ==
    <<Sample("pids"),
      Save("System", "process_count", "processes"),
      Sample("process_iter_cmdline"),
      Save("Application", "frappe_processes", "processes"),
      Sample("process_iter_memory")>>
    \o [i \in 1..Min(host.procs, TOP_PROCESSES) |->
            SaveWithDetails("System", TopProcNames[i], "%")]

\* DatabaseMonitor.collect_metrics, between its `try:` and its commit
DatabaseSteps(host) ==
    <<Sample("sql_connections"),
      Save("Database", "active_connections", "connections"),
      Sample("sql_table_count"),
      Save("Database", "table_count", "tables"),
      Sample("sql_db_size")>>
    \o (IF host.db_size THEN <<Save("Database", "database_size_mb", "MB")>> ELSE <<>>)
    \o <<Sample("sql_slow_queries"),
         Save("Database", "slow_queries", "queries")>>

Groups == <<"cpu", "memory", "disk", "network", "process">>

GroupSteps(g, host) ==
    CASE g = "cpu" -> CpuSteps(host)
      [] g = "memory" -> MemorySteps(host)
      [] g = "disk" -> DiskSteps(host)
      [] g = "network" -> NetworkSteps(host)
      [] g = "process" -> ProcessSteps(host)
      [] g = "database" -> DatabaseSteps(host)

\* the readings that alerts are about; the model keeps no other reading
HostValue(host, name) ==
    CASE name = "cpu_percent" -> host.cpu_percent
      [] name = "memory_percent" -> host.memory_percent
      [] name = "disk_percent" -> host.disk_percent
      [] OTHER -> 0

RECURSIVE RunSteps(_, _, _, _, _, _)
\* Run steps k.. of a sampling method.  failSample: the step whose call
\* raises (0: none), which ends the method in its `except`; failSave: the
\* save whose insert raises (0: none), caught and logged in _save_metric.
\* Each _save_metric call reads now_datetime().
RunSteps(steps, k, host, failSample, failSave, now) ==
    IF k > Len(steps) THEN [records |-> <<>>, raised |-> FALSE, now |-> now]
    ELSE IF steps[k].kind = "sample"
    THEN IF k = failSample
         THEN [records |-> <<>>, raised |-> TRUE, now |-> now]
         ELSE RunSteps(steps, k + 1, host, failSample, failSave, now)
    ELSE LET rest == RunSteps(steps, k + 1, host, failSample, failSave, now + 1)
             doc == [timestamp |-> now + 1,
                     metric_type |-> steps[k].type,
                     metric_name |-> steps[k].name,
                     value |-> HostValue(host, steps[k].name),
                     unit |-> steps[k].unit,
                     details |-> steps[k].details]
         IN IF k = failSave THEN rest
            ELSE [rest EXCEPT !.records = <<doc>> \o @]

SampleSteps(steps) == {k \in 1..Len(steps) : steps[k].kind = "sample"}
SaveSteps(steps) == {k \in 1..Len(steps) : steps[k].kind = "save"}

EmptyStore == [pending |-> <<>>, committed |-> <<>>]

\* _save_metric, were it to overwrite the stored record of the same type and
\* name in place of inserting a new one
SaveMetricsInPlace(store, records) ==
    LET fresh(rec) == \A i \in 1..Len(records) :
                          \/ records[i].metric_type # rec.metric_type
                          \/ records[i].metric_name # rec.metric_name
    IN [committed |-> SelectSeq(store.committed, fresh),
        pending |-> SelectSeq(store.pending, fresh) \o records]

\* _save_metric: frappe.new_doc("DevOps Metric") ... doc.insert(), once for
\* each record of a sampling method
SaveMetrics(store, records) == [store EXCEPT !.pending = @ \o records]

\* frappe.db.commit()
Commit(store) == [pending |-> <<>>, committed |-> store.committed \o store.pending]

\* an exception raised in _collect_<group> escapes it and ends collect_metrics
\* in its outer `except`, before the commit
NextPcNoGroupTry(pc, raised) ==
    IF raised THEN "database"
    ELSE CASE pc = "cpu" -> "memory"
           [] pc = "memory" -> "disk"
           [] pc = "disk" -> "network"
           [] pc = "network" -> "process"
           [] pc = "process" -> "commit"

\* SystemMonitor.collect_metrics: the order of the five _collect_ calls; each
\* catches what is raised inside it, so the next call follows in any case
NextPc(pc, raised) ==
    CASE pc = "cpu" -> "memory"
      [] pc = "memory" -> "disk"
      [] pc = "disk" -> "network"
      [] pc = "network" -> "process"
      [] pc = "process" -> "commit"

MaxPasses == 2
MaxFailures == 1

\* the hosts of the model
Hosts ==
    [cpu_freq : BOOLEAN, getloadavg : BOOLEAN, disk_io : BOOLEAN,
     db_size : BOOLEAN, cpus : {1}, procs : {1},
     cpu_percent : {8530}, memory_percent : {4000}, disk_percent : {9000}]

NoOutcome == [failSample |-> 0, failSave |-> 0, ran |-> FALSE, raised |-> FALSE]

IdleMonitor(host) ==
    [pc |-> "idle", host |-> host, passes |-> 0, failures |-> 0,
     start |-> 0, committed |-> FALSE,
     outcome |-> [g \in {"cpu", "memory", "disk", "network", "process",
                         "database"} |-> NoOutcome]]

Failures(failSample, failSave) ==
    (IF failSample # 0 THEN 1 ELSE 0) + (IF failSave # 0 THEN 1 ELSE 0)

\* `not self.settings or not self.settings.enable_monitoring`, with the
\* switch left out
MonitoringOffWithoutSwitch(settings) == ~settings.exists

\* `not self.settings or not self.settings.enable_monitoring`
MonitoringOff(settings) == ~settings.exists \/ ~settings.enable_monitoring

\* collect_all_metrics: SystemMonitor().collect_metrics() up to its first
\* _collect_ call; without settings, or with monitoring disabled, it returns
\* at once
StartCollect ==
    /\ monitor.pc = "idle"
    /\ monitor.passes < MaxPasses
    /\ monitor' = [monitor EXCEPT
           !.pc = IF MonitoringOff(settingsDoc) THEN "database" ELSE "cpu",
           !.passes = @ + 1,
           !.start = clock,
           !.committed = FALSE,
           !.outcome = [g \in DOMAIN @ |-> NoOutcome]]
    /\ UNCHANGED <<metrics, clock>>
    /\ UNCHANGED <<levelVars, logVars, settingsVars, alertVars, saveVars>>

\* one _collect_<group>_metrics call
CollectGroup ==
    /\ monitor.pc \in {"cpu", "memory", "disk", "network", "process"}
    /\ \E failSample \in SampleSteps(GroupSteps(monitor.pc, monitor.host)) \cup {0},
          failSave \in SaveSteps(GroupSteps(monitor.pc, monitor.host)) \cup {0} :
        LET run == RunSteps(GroupSteps(monitor.pc, monitor.host), 1, monitor.host,
                            failSample, failSave, clock)
        IN /\ monitor.failures + Failures(failSample, failSave) <= MaxFailures
           /\ metrics' = SaveMetrics(metrics, run.records)
           /\ clock' = run.now
           /\ monitor' = [monitor EXCEPT
                  !.pc = NextPc(monitor.pc, run.raised),
                  !.failures = @ + Failures(failSample, failSave),
                  !.outcome[monitor.pc] =
                      [failSample |-> failSample, failSave |-> failSave,
                       ran |-> TRUE, raised |-> run.raised]]
    /\ UNCHANGED <<levelVars, logVars, settingsVars, alertVars, saveVars>>

\* the frappe.db.commit() that ends SystemMonitor.collect_metrics
CommitMetrics ==
    /\ monitor.pc = "commit"
    /\ metrics' = Commit(metrics)
    /\ monitor' = [monitor EXCEPT !.pc = "database", !.committed = TRUE]
    /\ UNCHANGED clock
    /\ UNCHANGED <<levelVars, logVars, settingsVars, alertVars, saveVars>>

\* collect_all_metrics: DatabaseMonitor().collect_metrics(); one `try` holds
\* the four queries, their saves and the commit
DatabaseCollect ==
    /\ monitor.pc = "database"
    /\ \E failSample \in SampleSteps(DatabaseSteps(monitor.host)) \cup {0},
          failSave \in SaveSteps(DatabaseSteps(monitor.host)) \cup {0} :
        LET run == RunSteps(DatabaseSteps(monitor.host), 1, monitor.host,
                            failSample, failSave, clock)
            enabled == ~MonitoringOff(settingsDoc)
            saved == SaveMetrics(metrics, run.records)
        IN /\ enabled => monitor.failures + Failures(failSample, failSave)
                             <= MaxFailures
           /\ ~enabled => failSample = 0 /\ failSave = 0
           /\ metrics' = IF ~enabled THEN metrics
                         ELSE IF run.raised THEN saved ELSE Commit(saved)
           /\ clock' = IF enabled THEN run.now ELSE clock
           /\ monitor' = [monitor EXCEPT
                  !.pc = "idle",
                  !.failures = @ + Failures(failSample, failSave),
                  !.outcome["database"] =
                      [failSample |-> failSample, failSave |-> failSave,
                       ran |-> enabled, raised |-> enabled /\ run.raised]]
    /\ UNCHANGED <<levelVars, logVars, settingsVars, alertVars, saveVars>>

(***************************************************************************)
(* Idle values of the other subsystems' variables                          *)
(***************************************************************************)
SettingsIdle ==
    /\ cache = NoCache
    /\ saveResult = NoSave
    /\ readers = [r \in 1..NumReaders |-> IdleReader]
    /\ writes = 0
    /\ install = NoSetupCall(settingsDoc)

MetricIdle ==
    /\ metrics = EmptyStore
    /\ clock = 0
    /\ monitor = IdleMonitor(CHOOSE h \in Hosts : TRUE)

(***************************************************************************)
(* AlertManager                                                            *)
(***************************************************************************)
DigitChars == <<"0","1","2","3","4","5","6","7","8","9">>

RECURSIVE IntText(_)
\* str(n) for a natural number
IntText(n) ==
    IF n < 10 THEN <<DigitChars[n + 1]>>
    ELSE IntText(n \div 10) \o <<DigitChars[(n % 10) + 1]>>

\* f"{value:.1f}" for a reading held in hundredths of a percent: rounded to
\* tenths, a tie going to the even digit (the ties among the readings used,
\* x.25 and x.75, are exact binary fractions)
Format1(value) ==
    LET q == value \div 10
        r == value % 10
        tenths == IF r > 5 \/ (r = 5 /\ q % 2 = 1) THEN q + 1 ELSE q
    IN IntText(tenths \div 10) \o <<".">> \o IntText(tenths % 10)

TXT_USAGE_IS == <<" ","u","s","a","g","e"," ","i","s"," ">>
TXT_EXCEEDING == <<"%",","," ","e","x","c","e","e","d","i","n","g"," ","t","h","r","e","s","h","o","l","d"," ","o","f"," ">>
TXT_CPU == <<"C","P","U">>
TXT_MEMORY == <<"M","e","m","o","r","y">>
TXT_DISK == <<"D","i","s","k">>

\* the three (metric, threshold field, alert type) checks of check_alerts, in
\* the order of the code
AlertChecks ==
    <<[metric |-> "cpu_percent", field |-> "cpu_threshold",
       type |-> "CPU", label |-> TXT_CPU],
      [metric |-> "memory_percent", field |-> "memory_threshold",
       type |-> "Memory", label |-> TXT_MEMORY],
      [metric |-> "disk_percent", field |-> "disk_threshold",
       type |-> "Disk", label |-> TXT_DISK]>>

\* `value >= threshold`
ExceedsOrEqual(value, threshold) == value >= threshold * 100

\* `latest.get(name, 0) > self.settings.<name>_threshold`; readings are held
\* in hundredths of a percent, thresholds in percent
Exceeds(value, threshold) == value > threshold * 100

\* f"{type} usage is {value:.1f}%, exceeding threshold of {threshold}%"
AlertMessage(check, value, threshold) ==
    check.label \o TXT_USAGE_IS \o Format1(value) \o TXT_EXCEEDING
        \o IntText(threshold) \o <<"%">>

RECURSIVE OrderByTimestampDesc(_)
\* ORDER BY timestamp DESC over the rows of the table (the timestamps of the
\* rows read are distinct)
OrderByTimestampDesc(rows) ==
    IF rows = <<>> THEN <<>>
    ELSE LET k == CHOOSE i \in 1..Len(rows) :
                      \A j \in 1..Len(rows) : rows[j].timestamp <= rows[i].timestamp
         IN <<rows[k]>> \o OrderByTimestampDesc(
                SubSeq(rows, 1, k - 1) \o SubSeq(rows, k + 1, Len(rows)))

RECURSIVE LatestFromAnyType(_, _, _)
\* the scan without `WHERE metric_type = 'System'`
LatestFromAnyType(rows, k, acc) ==
    IF k > Len(rows) THEN acc
    ELSE LET row == rows[k]
         IN IF row.metric_name \notin DOMAIN acc
            THEN LatestFromAnyType(rows, k + 1, acc @@ (row.metric_name :> row.value))
            ELSE LatestFromAnyType(rows, k + 1, acc)

RECURSIVE LatestFrom(_, _, _)
\* AlertManager._get_latest_metrics: the scan of the query's result from row
\* k on; the rows of type 'System' count, the first row of each metric_name is
\* kept
LatestFrom(rows, k, acc) ==
    IF k > Len(rows) THEN acc
    ELSE LET row == rows[k]
         IN IF row.metric_type = "System" /\ row.metric_name \notin DOMAIN acc
            THEN LatestFrom(rows, k + 1, acc @@ (row.metric_name :> row.value))
            ELSE LatestFrom(rows, k + 1, acc)

NoLatest == [name \in {} |-> 0]

\* queryFails: frappe.db.sql raises, which is logged and leaves the dict empty
GetLatestMetrics(store, queryFails) ==
    IF queryFails THEN NoLatest
    ELSE LatestFrom(OrderByTimestampDesc(store.committed), 1, NoLatest)

\* dict.get(name, 0)
Get(latest, name) == IF name \in DOMAIN latest THEN latest[name] ELSE 0

RECURSIVE BuildAlertsDeduplicated(_, _, _)
\* the `alerts` list, were an alert left out once a notification with its
\* message exists
BuildAlertsDeduplicated(settings, latest, i) ==
    IF i > Len(AlertChecks) THEN <<>>
    ELSE LET check == AlertChecks[i]
             threshold == settings[check.field]
             rest == BuildAlertsDeduplicated(settings, latest, i + 1)
         IN IF /\ Exceeds(Get(latest, check.metric), threshold)
               /\ \A k \in 1..Len(notifications.committed) :
                      notifications.committed[k].email_content
                          # AlertMessage(check, latest[check.metric], threshold)
            THEN <<[type |-> check.type,
                    message |-> AlertMessage(check, latest[check.metric],
                                             threshold)]>> \o rest
            ELSE rest

RECURSIVE BuildAlerts(_, _, _)
\* the `alerts` list of check_alerts
BuildAlerts(settings, latest, i) ==
    IF i > Len(AlertChecks) THEN <<>>
    ELSE LET check == AlertChecks[i]
             threshold == settings[check.field]
             rest == BuildAlerts(settings, latest, i + 1)
         IN IF Exceeds(Get(latest, check.metric), threshold)
            THEN <<[type |-> check.type,
                    message |-> AlertMessage(check, latest[check.metric],
                                             threshold)]>> \o rest
            ELSE rest

RECURSIVE NotifyEveryRecipient(_, _, _, _)
\* the recipient loop without `if recipient.notify_on_alert`
NotifyEveryRecipient(recipients, alert, i, failAt) ==
    IF i > Len(recipients) THEN [docs |-> <<>>, raised |-> FALSE]
    ELSE IF i = failAt THEN [docs |-> <<>>, raised |-> TRUE]
    ELSE LET rest == NotifyEveryRecipient(recipients, alert, i + 1, failAt)
             doc == [for_user |-> recipients[i].user,
                     subject |-> <<"DevOps Alert: ", alert.type>>,
                     email_content |-> alert.message,
                     type |-> "Alert"]
         IN [rest EXCEPT !.docs = <<doc>> \o @]

RECURSIVE Notify(_, _, _, _)
\* the recipient loop of _send_alert from recipient i on; failAt: the
\* recipient whose notification.insert raises (0: none), which leaves the
\* loop for the `except` of _send_alert
Notify(recipients, alert, i, failAt) ==
    IF i > Len(recipients) THEN [docs |-> <<>>, raised |-> FALSE]
    ELSE IF ~recipients[i].notify_on_alert
    THEN Notify(recipients, alert, i + 1, failAt)
    ELSE IF i = failAt THEN [docs |-> <<>>, raised |-> TRUE]
    ELSE LET rest == Notify(recipients, alert, i + 1, failAt)
             doc == [for_user |-> recipients[i].user,
                     subject |-> <<"DevOps Alert: ", alert.type>>,
                     email_content |-> alert.message,
                     type |-> "Alert"]
         IN [rest EXCEPT !.docs = <<doc>> \o @]

\* settings.alert_recipients of the document _send_alert loads; get_doc
\* raises when the site has none
Recipients(doc) == IF doc.exists THEN doc.alert_recipients ELSE <<>>

\* `not self.settings or not self.settings.enable_alerts`, with the switch
\* left out
AlertingOffWithoutSwitch(settings) == ~settings.exists

\* `not self.settings or not self.settings.enable_alerts`
AlertingOff(settings) == ~settings.exists \/ ~settings.enable_alerts

MaxAlertPasses == 2

\* latest: the dict _get_latest_metrics returned; before: the number of
\* Notification Log records when the pass began
IdleAlertPass ==
    [pc |-> "idle", passes |-> 0, evaluated |-> FALSE, queryFailed |-> FALSE,
     latest |-> NoLatest, alerts |-> <<>>, next |-> 1, sent |-> <<>>,
     before |-> 0]

AlertIdle ==
    /\ notifications = EmptyStore
    /\ alertPass = IdleAlertPass

\* AlertManager() and check_alerts up to its dispatch loop
CheckAlerts ==
    /\ alertPass.pc = "idle"
    /\ alertPass.passes < MaxAlertPasses
    /\ IF AlertingOff(settingsDoc)
       THEN alertPass' =
                [IdleAlertPass EXCEPT
                    !.passes = alertPass.passes + 1,
                    !.before = Len(notifications.committed)
                                   + Len(notifications.pending)]
       ELSE \E queryFails \in BOOLEAN :
                LET latest == GetLatestMetrics(metrics, queryFails)
                    alerts == BuildAlerts(settingsDoc, latest, 1)
                IN alertPass' =
                       [pc |-> IF alerts = <<>> THEN "idle" ELSE "send",
                        passes |-> alertPass.passes + 1,
                        evaluated |-> TRUE,
                        queryFailed |-> queryFails,
                        latest |-> latest,
                        alerts |-> alerts,
                        next |-> 1,
                        sent |-> <<>>,
                        before |-> Len(notifications.committed)
                                       + Len(notifications.pending)]
    /\ UNCHANGED <<notifications, levelVars, logVars, settingsVars, metricVars,
                   saveVars>>

\* one iteration of `for alert in alerts: self._send_alert(alert)`
SendAlert ==
    /\ alertPass.pc = "send"
    /\ \E failAt \in 0..Len(Recipients(settingsDoc)) :
           /\ failAt # 0 => Recipients(settingsDoc)[failAt].notify_on_alert
           /\ LET alert == alertPass.alerts[alertPass.next]
                  run == IF settingsDoc.exists
                         THEN Notify(Recipients(settingsDoc), alert, 1, failAt)
                         ELSE [docs |-> <<>>, raised |-> TRUE]
                  inserted == [notifications EXCEPT !.pending = @ \o run.docs]
              IN /\ notifications' = IF run.raised THEN inserted
                                     ELSE Commit(inserted)
                 /\ alertPass' =
                        [alertPass EXCEPT
                            !.next = @ + 1,
                            !.sent = Append(@, [failAt |-> failAt,
                                                committed |-> ~run.raised]),
                            !.pc = IF alertPass.next = Len(alertPass.alerts)
                                   THEN "idle" ELSE "send"]
    /\ UNCHANGED <<levelVars, logVars, settingsVars, metricVars, saveVars>>


(***************************************************************************)
(* devops_metric.get_latest_metrics                                        *)
(***************************************************************************)
METRIC_TYPES == <<"System", "Database", "Application", "Network">>

\* limit_page_length=20
LATEST_PAGE_LENGTH == 20

RECURSIVE UniqueLatest(_, _, _)
\* `for m in metrics: if m.metric_name not in seen: ...append(m)`
UniqueLatest(rows, k, seen) ==
    IF k > Len(rows) THEN <<>>
    ELSE IF rows[k].metric_name \in seen
    THEN UniqueLatest(rows, k + 1, seen)
    ELSE <<rows[k]>> \o UniqueLatest(rows, k + 1, seen \cup {rows[k].metric_name})

\* frappe.get_all(filters={"metric_type": metric_type},
\* order_by="timestamp desc", limit_page_length=20)
LatestPage(rows, metric_type) ==
    LET ofType == SelectSeq(rows, LAMBDA r : r.metric_type = metric_type)
    IN Prefix(OrderByTimestampDesc(ofType), LATEST_PAGE_LENGTH)

\* get_latest_metrics() over the committed rows
LatestMetrics(rows) ==
    [t \in SeqToSet(METRIC_TYPES) |-> UniqueLatest(LatestPage(rows, t), 1, {})]

\* a request for the latest metrics between two collection passes
DoGetLatestMetrics ==
    /\ monitor.pc = "idle"
    /\ apiCall.op = "none"
    /\ apiCall' = [op |-> "get_latest_metrics", rows |-> metrics.committed,
                   result |-> LatestMetrics(metrics.committed)]
    /\ UNCHANGED <<fs, logs, utilCall, levelVars, settingsVars, metricVars,
                   alertVars, saveVars>>

(***************************************************************************)
(* LogCollector.save_to_db                                                 *)
(***************************************************************************)
MAX_MESSAGE_LENGTH == 4000

\* log.get('message', '') stored whole
MessageUntruncated(log) == log.message

\* log.get('message', '')[:4000]
Message(log) == SubSeq(log.message, 1, Min(Len(log.message), MAX_MESSAGE_LENGTH))

\* the DevOps Log Entry document save_to_db builds for one log
LogEntryDoc(log, log_type) ==
    [timestamp |-> log.timestamp,
     log_type |-> log_type,
     log_level |-> log.level,
     source |-> log.source,
     message |-> Message(log),
     details |-> log.raw]

MaxSavePasses == 1

IdleSavePass ==
    [pc |-> "idle", passes |-> 0, batch |-> <<>>, log_type |-> "", next |-> 1,
     failed |-> {}, commits |-> 0, attemptedAtCommit |-> 0, before |-> <<>>]

\* `filters={"timestamp": ["<", cutoff_date]}`, were it "<="
IsOldOrAtCutoff(entry, cutoff) == entry.timestamp <= cutoff

\* `filters={"timestamp": ["<", cutoff_date]}`
IsOld(entry, cutoff) == entry.timestamp < cutoff

HOURS_PER_DAY == 24

\* add_days(now_datetime(), -days); time is counted in hours
CutoffDate(now, days) == now - days * HOURS_PER_DAY

RECURSIVE Keep(_, _)
\* the store after frappe.delete_doc of each old entry
Keep(entries, cutoff) ==
    IF entries = <<>> THEN <<>>
    ELSE (IF IsOld(Head(entries), cutoff) THEN <<>> ELSE <<Head(entries)>>)
         \o Keep(Tail(entries), cutoff)

\* clear_old_logs(days) at time now: [store, returned]
ClearOldLogs(store, now, days) ==
    LET cutoff == CutoffDate(now, days)
        rows == store.committed \o store.pending
        old_logs == {k \in 1..Len(rows) : IsOld(rows[k], cutoff)}
    IN [store |-> Commit([committed |-> Keep(store.committed, cutoff),
                          pending |-> Keep(store.pending, cutoff)]),
        returned |-> Cardinality(old_logs)]

MaxSweeps == 2

\* no collect_all_logs run yet
NoIngest ==
    [runs |-> 0, appends |-> 0, raised |-> FALSE, before |-> <<>>,
     changed |-> FALSE]

NoSweep ==
    [sweeps |-> 0, via |-> "none", days |-> 0, before |-> <<>>, returned |-> 0,
     raised |-> FALSE]

SaveIdle ==
    /\ logEntries = EmptyStore
    /\ savePass = IdleSavePass
    /\ sweep = NoSweep
    /\ ingest = NoIngest

\* the whitelisted clear_old_logs(days) called directly
DoClearOldLogs ==
    /\ sweep.sweeps < MaxSweeps
    /\ \E days \in {0, 1, 30} :
           LET run == ClearOldLogs(logEntries, clock, days)
           IN /\ logEntries' = run.store
              /\ sweep' = [sweeps |-> sweep.sweeps + 1, via |-> "api",
                           days |-> days, before |-> logEntries.committed,
                           returned |-> run.returned, raised |-> FALSE]
    /\ UNCHANGED <<savePass, ingest, levelVars, logVars, settingsVars, metricVars,
                   alertVars>>

\* tasks.cleanup_old_logs: get_doc raises without a settings document, which
\* the task catches and logs
CleanupOldLogs ==
    /\ sweep.sweeps < MaxSweeps
    /\ LET run == ClearOldLogs(logEntries, clock, settingsDoc.log_retention_days)
       IN IF settingsDoc.exists
          THEN /\ logEntries' = run.store
               /\ sweep' = [sweeps |-> sweep.sweeps + 1, via |-> "task",
                            days |-> settingsDoc.log_retention_days,
                            before |-> logEntries.committed,
                            returned |-> run.returned, raised |-> FALSE]
          ELSE /\ UNCHANGED logEntries
               /\ sweep' = [sweeps |-> sweep.sweeps + 1, via |-> "task",
                            days |-> 0, before |-> logEntries.committed,
                            returned |-> 0, raised |-> TRUE]
    /\ UNCHANGED <<savePass, ingest, levelVars, logVars, settingsVars, metricVars,
                   alertVars>>

\* one iteration of `for log in logs:`; insertFails: doc.insert raises, which
\* is caught and logged inside the loop
SaveEntry ==
    /\ savePass.pc = "loop"
    /\ savePass.next <= Len(savePass.batch)
    /\ \E insertFails \in BOOLEAN :
           LET doc == LogEntryDoc(savePass.batch[savePass.next], savePass.log_type)
           IN /\ logEntries' = IF insertFails THEN logEntries
                               ELSE [logEntries EXCEPT !.pending = Append(@, doc)]
              /\ savePass' = [savePass EXCEPT
                                 !.next = @ + 1,
                                 !.failed = IF insertFails
                                            THEN @ \cup {savePass.next} ELSE @]
    /\ UNCHANGED <<sweep, ingest, levelVars, logVars, settingsVars, metricVars,
                   alertVars>>

\* frappe.db.commit() after the loop
CommitSave ==
    /\ savePass.pc = "loop"
    /\ savePass.next > Len(savePass.batch)
    /\ logEntries' = Commit(logEntries)
    /\ savePass' = [savePass EXCEPT !.pc = "idle",
                                    !.commits = @ + 1,
                                    !.attemptedAtCommit = savePass.next - 1]
    /\ UNCHANGED <<sweep, ingest, levelVars, logVars, settingsVars, metricVars,
                   alertVars>>


\* os.path.join(path, name) raises TypeError for a path that is None
JoinRaises(path) == path = None

RECURSIVE SaveToDb(_, _, _)
\* save_to_db(logs, log_type) with every insert succeeding
SaveToDb(store, batch, log_type) ==
    IF batch = <<>> THEN Commit(store)
    ELSE SaveToDb([store EXCEPT !.pending = Append(@, LogEntryDoc(Head(batch), log_type))],
                  Tail(batch), log_type)

\* collect_all_logs: five collect calls, each followed by save_to_db; a
\* collect call whose log path is unset raises at its os.path.join, and
\* nothing in collect_all_logs catches it
CollectAllLogs(settings, store, frappe_logs, error_logs, nginx_access, nginx_error, supervisor_logs) ==
    LET s1 == SaveToDb(store, frappe_logs, "Frappe")
        s2 == SaveToDb(s1, error_logs, "Error")
        s3 == SaveToDb(s2, nginx_access, "Nginx")
        s4 == SaveToDb(s3, nginx_error, "Nginx")
        s5 == SaveToDb(s4, supervisor_logs, "Supervisor")
    IN IF settings.exists /\ JoinRaises(settings.frappe_log_path)
       THEN [store |-> store, raised |-> TRUE]
       ELSE IF settings.exists /\ JoinRaises(settings.nginx_log_path)
       THEN [store |-> s2, raised |-> TRUE]
       ELSE IF settings.exists /\ JoinRaises(settings.supervisor_log_path)
       THEN [store |-> s4, raised |-> TRUE]
       ELSE [store |-> s5, raised |-> FALSE]

MaxRuns == 2
MaxAppends == 1

\* one run of collect_all_logs; the files do not change during the run
DoCollectAllLogs ==
    /\ ingest.runs < MaxRuns
    /\ \E now \in NowStamps :
       \E frappe_logs \in {CollectFrappeLogs(settingsDoc, fs, 100, now)},
          error_logs \in {CollectErrorLogs(settingsDoc, fs, 50, now)},
          nginx_access \in {CollectNginxLogs(settingsDoc, fs, "access", 50, now)},
          nginx_error \in {CollectNginxLogs(settingsDoc, fs, "error", 20, now)},
          supervisor_logs \in {CollectSupervisorLogs(settingsDoc, fs, 50, now)} :
         \E run \in {CollectAllLogs(settingsDoc, logEntries, frappe_logs,
                                    error_logs, nginx_access, nginx_error,
                                    supervisor_logs)} :
              /\ logEntries' = run.store
              /\ ingest' = [ingest EXCEPT !.runs = @ + 1,
                                          !.raised = run.raised,
                                          !.before = logEntries.committed,
                                          !.changed = FALSE]
    /\ UNCHANGED <<savePass, sweep, fs, logs, utilCall, apiCall, levelVars,
                   settingsVars, metricVars, alertVars>>

\* the service that owns a log file appends one line to it
AppendLine ==
    /\ ingest.appends < MaxAppends
    /\ \E p \in Paths, l \in {LINE_A, LINE_B} :
           /\ fs[p].exists
           /\ fs' = [fs EXCEPT ![p].content = @ \o <<"\n">> \o l]
    /\ ingest' = [ingest EXCEPT !.appends = @ + 1, !.changed = TRUE]
    /\ UNCHANGED <<logEntries, savePass, sweep, logs, utilCall, apiCall,
                   levelVars, settingsVars, metricVars, alertVars>>

(***************************************************************************)
(* api.execute_command.  A command is a string, given by its whitespace-   *)
(* separated words, or a value that is not a string.                       *)
(***************************************************************************)
\* allowed_commands
ALLOWED_COMMANDS == {"ping", "curl", "netstat", "ss", "df", "du", "ps", "top", "htop"}

\* the words between which /bin/sh starts a further command
ShellSeparators == {";", "&&", "|"}

\* command.split(); raises AttributeError for a value without split
CommandSplit(command) == command.words

\* /bin/sh rejects the whole string, and runs nothing, when a command is
\* missing before a separator or after "&&" or "|"
ShellSyntaxError(words) ==
    \/ words[1] \in ShellSeparators
    \/ \E k \in 1..(Len(words) - 1) :
           words[k] \in ShellSeparators /\ words[k + 1] \in ShellSeparators
    \/ words[Len(words)] \in {"&&", "|"}

RECURSIVE ShellRuns(_, _, _)
\* the programs /bin/sh -c starts for the words from k on: the first word,
\* and the word after each separator; after "&&" only when the command
\* before it exited with 0
ShellRuns(words, k, ok) ==
    IF k > Len(words) THEN <<>>
    ELSE IF k = 1 THEN <<words[1]>> \o ShellRuns(words, 2, ok)
    ELSE IF words[k - 1] \in {";", "|"} /\ words[k] \notin ShellSeparators
    THEN <<words[k]>> \o ShellRuns(words, k + 1, ok)
    ELSE IF words[k - 1] = "&&"
    THEN IF ok THEN <<words[k]>> \o ShellRuns(words, k + 1, ok) ELSE <<>>
    ELSE ShellRuns(words, k + 1, ok)

\* subprocess.run(command, shell=True, ...): what the shell executes
SubprocessRun(words, ok) ==
    IF ShellSyntaxError(words) THEN <<>> ELSE ShellRuns(words, 1, ok)

\* `if cmd_parts[0] not in allowed_commands`
Rejected(cmd_parts) == cmd_parts[1] \notin ALLOWED_COMMANDS

\* `except subprocess.TimeoutExpired:` is evaluated when an exception reaches
\* the handlers; subprocess is a local name of execute_command, bound by the
\* `import subprocess` after the allow-list check, and reading it unbound
\* raises UnboundLocalError out of the function
HandlerLookupRaises(imported) == ~imported

Payload(success, error) == [success |-> success, error |-> error]

\* execute_command(command).  timesOut: the command runs longer than 30 s;
\* spawnFails: the shell cannot be started; ok: the commands exit with 0
ExecuteCommand(command, timesOut, spawnFails, ok) ==
    IF ~command.isString \/ CommandSplit(command) = <<>>
    THEN \* AttributeError at split, IndexError at cmd_parts[0]
         IF HandlerLookupRaises(FALSE)
         THEN [raised |-> TRUE, payload |-> None, executed |-> <<>>]
         ELSE [raised |-> FALSE, payload |-> Payload(FALSE, "str(e)"),
               executed |-> <<>>]
    ELSE IF Rejected(CommandSplit(command))
    THEN [raised |-> FALSE, payload |-> Payload(FALSE, "is not allowed"),
          executed |-> <<>>]
    ELSE IF spawnFails
    THEN IF HandlerLookupRaises(TRUE)
         THEN [raised |-> TRUE, payload |-> None, executed |-> <<>>]
         ELSE [raised |-> FALSE, payload |-> Payload(FALSE, "str(e)"),
               executed |-> <<>>]
    ELSE IF timesOut
    THEN [raised |-> FALSE, payload |-> Payload(FALSE, "Command timed out"),
          executed |-> SubprocessRun(CommandSplit(command), ok)]
    ELSE [raised |-> FALSE,
          payload |-> Payload(ok /\ ~ShellSyntaxError(CommandSplit(command)),
                              "result.stderr"),
          executed |-> SubprocessRun(CommandSplit(command), ok)]

MaxCommandWords == 3

\* words commands are made of: allowed programs, other programs, an
\* argument, and the shell separators
CommandWords == {"ping", "df", "rm", "cat", "-h"} \cup ShellSeparators

\* strings (the empty and the whitespace-only one have no words) and a value
\* that is not a string
Commands ==
    {[isString |-> TRUE, words |-> w] : w \in SeqsUpTo(CommandWords, MaxCommandWords)}
    \cup {[isString |-> FALSE, words |-> <<>>]}

DoExecuteCommand ==
    /\ apiCall.op = "none"
    /\ \E command \in Commands, timesOut \in BOOLEAN, spawnFails \in BOOLEAN,
          ok \in BOOLEAN :
           /\ ~(timesOut /\ spawnFails)
           /\ apiCall' = [op |-> "execute_command", command |-> command,
                          timesOut |-> timesOut, spawnFails |-> spawnFails,
                          ok |-> ok,
                          result |-> ExecuteCommand(command, timesOut,
                                                    spawnFails, ok)]
    /\ UNCHANGED <<fs, logs, utilCall, levelVars, settingsVars, metricVars,
                   alertVars, saveVars>>

\* a later request: the call record of the one before is dropped
NextRequest ==
    /\ apiCall.op # "none"
    /\ apiCall' = NoApiCall
    /\ UNCHANGED <<fs, logs, utilCall, levelVars, settingsVars, metricVars,
                   alertVars, saveVars>>

(***************************************************************************)
(* SpecLevel                                                               *)
(***************************************************************************)
LevelInit ==
    /\ line \in LineInputs
    /\ level = [collector |-> None, api |-> None]
    /\ parsed = NoParsed
    /\ LogIdle /\ settingsDoc = NoDoc /\ SettingsIdle
    /\ MetricIdle /\ AlertIdle /\ SaveIdle

LevelNext == CollectorDetect \/ ApiDetect

SpecLevel == LevelInit /\ [][LevelNext]_vars

(***************************************************************************)
(* SpecLog                                                                 *)
(***************************************************************************)
SpecLogInit ==
    /\ LogInit
    /\ settingsDoc \in {NoDoc, DefaultSettings}
    /\ LevelIdle /\ SettingsIdle /\ MetricIdle /\ AlertIdle /\ SaveIdle

LogNext ==
    \/ DoReadLogFile
    \/ DoCollectFrappeLogs
    \/ DoCollectErrorLogs
    \/ DoCollectNginxLogs
    \/ DoCollectSupervisorLogs
    \/ DoGetLogs

SpecLog == SpecLogInit /\ [][LogNext]_vars

(***************************************************************************)
(* Claims about level detection (SpecLevel)                                *)
(***************************************************************************)
HasAny(l, kws) == \E kw \in kws : Contains(Upper(l), kw)

\* the level the stated keyword priority gives a line
PriorityLevel(l) ==
    CASE HasAny(l, {KW_CRITICAL, KW_FATAL, KW_EMERGENCY}) -> "CRITICAL"
      [] HasAny(l, {KW_ERROR}) -> "ERROR"
      [] HasAny(l, {KW_WARNING, KW_WARN}) -> "WARNING"
      [] HasAny(l, {KW_INFO}) -> "INFO"
      [] HasAny(l, {KW_DEBUG}) -> "DEBUG"
      [] OTHER -> "INFO"

\* C4: both detectors return, for every line, one of the five levels, and
\* it is the level of the keyword priority CRITICAL/FATAL/EMERGENCY > ERROR >
\* WARNING/WARN > INFO > DEBUG, INFO when the line holds no keyword.
C4_LevelPriorityBothDetectors ==
    /\ level.collector # None =>
           level.collector \in Levels /\ level.collector = PriorityLevel(line)
    /\ level.api # None =>
           level.api \in Levels /\ level.api = PriorityLevel(line)

\* the part of C4 about LogCollector._detect_log_level alone
C4_CollectorFollowsPriority ==
    level.collector # None =>
        level.collector \in Levels /\ level.collector = PriorityLevel(line)

\* the part of C4 that is total on both: some level is always returned
C4_BothTotal ==
    /\ level.collector # None => level.collector \in Levels
    /\ level.api # None => level.api \in Levels

(***************************************************************************)
(* Claims about reading log files (SpecLog)                                *)
(***************************************************************************)
\* the lines of a file: its "\n"-terminated lines, and a last line without "\n"
LinesOfFile(content) ==
    LET segs == Split(content, "\n")
    IN IF segs[Len(segs)] = <<>> THEN SubSeq(segs, 1, Len(segs) - 1) ELSE segs

\* the last min(n, L) lines of a file, in file order
LastLinesOfFile(content, n) ==
    LET ls == LinesOfFile(content)
    IN SubSeq(ls, Len(ls) - Min(n, Len(ls)) + 1, Len(ls))

SingleFileTypes == {"scheduler", "nginx_access", "nginx_error", "supervisor"}

\* no line of the file is blank (a blank line is skipped by `if line.strip()`)
NoBlankLine(content) ==
    \A i \in 1..Len(LinesOfFile(content)) : Strip(LinesOfFile(content)[i]) # <<>>

\* C1: a file no larger than the byte budget (lines * 300 in _read_log_file,
\* lines * 200 in get_logs), tailed with line budget n, yields exactly
\* min(n, L) entries, the file's last lines in file order.  Stated here for
\* the files none of whose L lines is blank, the zero-byte file included.
C1_TailYieldsMinLines ==
    /\ (/\ logs.op = "read_log_file"
        /\ fs[logs.arg].exists
        /\ NoBlankLine(fs[logs.arg].content)
        /\ Len(fs[logs.arg].content) <= logs.lines * COLLECTOR_BYTES_PER_LINE)
       => /\ Len(logs.result) =
                 Min(logs.lines, Len(LinesOfFile(fs[logs.arg].content)))
          /\ [i \in 1..Len(logs.result) |-> logs.result[i].raw] =
                 LastLinesOfFile(fs[logs.arg].content, logs.lines)
    /\ (/\ logs.op = "get_logs"
        /\ logs.arg \in SingleFileTypes
        /\ fs[ApiLogFiles[logs.arg][1]].exists
        /\ NoBlankLine(fs[ApiLogFiles[logs.arg][1]].content)
        /\ Len(fs[ApiLogFiles[logs.arg][1]].content)
               <= logs.lines * API_BYTES_PER_LINE)
       => /\ Len(logs.result) =
                 Min(logs.lines,
                     Len(LinesOfFile(fs[ApiLogFiles[logs.arg][1]].content)))
          /\ [i \in 1..Len(logs.result) |-> logs.result[i].message] =
                 LastLinesOfFile(fs[ApiLogFiles[logs.arg][1]].content, logs.lines)

IsSortedDesc(entries) ==
    \A i \in 1..(Len(entries) - 1) :
        ~StrLess(entries[i].timestamp, entries[i + 1].timestamp)

CollectOps == {"collect_frappe_logs", "collect_error_logs",
               "collect_nginx_logs", "collect_supervisor_logs"}

\* C3: what every collect_* operation returns is sorted non-increasing by
\* timestamp string and no longer than the budget, missing files skipped.
C3_CollectSortedAndBounded ==
    logs.op \in CollectOps =>
        /\ IsSortedDesc(logs.result)
        /\ Len(logs.result) <= logs.lines

\* the part of C3 that the merging collectors (frappe, error) satisfy
C3_MergedGroupsSorted ==
    logs.op \in {"collect_frappe_logs", "collect_error_logs"} =>
        /\ IsSortedDesc(logs.result)
        /\ Len(logs.result) <= logs.lines

\* the part of C3 about the length, for every collector
C3_AllGroupsBounded ==
    logs.op \in CollectOps => Len(logs.result) <= logs.lines

(***************************************************************************)
(* SpecSettings: settings writes and concurrent get_settings calls         *)
(***************************************************************************)
SpecSettingsInit ==
    /\ SettingsInit
    /\ LevelIdle /\ LogIdle /\ MetricIdle /\ AlertIdle /\ SaveIdle

SettingsNext ==
    \/ CreateDefaultSettings
    \/ SaveSettings
    \/ OnUpdate
    \/ \E r \in 1..NumReaders : GetSettingsReadCache(r)
    \/ \E r \in 1..NumReaders : GetSettingsGetDoc(r)
    \/ \E r \in 1..NumReaders : GetSettingsSetValue(r)

SpecSettings == SpecSettingsInit /\ [][SettingsNext]_vars

(***************************************************************************)
(* Claims about the settings (SpecSettings)                                *)
(***************************************************************************)
\* C5: a write with cpu_threshold, memory_threshold or disk_threshold
\* outside [0,100] is rejected and leaves the stored settings unchanged, a
\* write of a value in [0,100] (0 and 100 included) is accepted and stored,
\* and the stored thresholds are always in [0,100].
C5_ThresholdsValidated ==
    /\ settingsDoc.exists =>
           \A f \in ThresholdFields : settingsDoc[f] \in 0..100
    /\ saveResult.status # "none" =>
           (saveResult.status = "rejected" <=> saveResult.value \notin 0..100)
    /\ saveResult.status = "rejected" => settingsDoc = saveResult.before
    /\ saveResult.status \in {"written", "saved"} =>
           settingsDoc[saveResult.field] = saveResult.value

\* a write of 100 was accepted and a later write of 101 rejected
C5_Witness ==
    /\ saveResult.status = "rejected"
    /\ saveResult.value = 101
    /\ \E f \in ThresholdFields : settingsDoc[f] = 100
    /\ \E f \in ThresholdFields : settingsDoc[f] = 0

\* no settings write and no get_settings call is in progress
SettingsQuiescent ==
    /\ saveResult.pc = "idle"
    /\ \A r \in 1..NumReaders : readers[r].pc = "idle"

\* what a get_settings call started now, and run alone, returns
NextGetSettings ==
    IF cache.set THEN cache.values ELSE SettingsDict(settingsDoc)

\* C10: once a settings write has completed and every get_settings call in
\* flight has returned, any later get_settings call returns the values of the
\* latest write.
C10_NoStaleCacheAfterWrite ==
    (writes >= 1 /\ SettingsQuiescent) =>
        NextGetSettings = SettingsDict(settingsDoc)

(***************************************************************************)
(* SpecMetrics: collect_all_metrics passes with failing calls              *)
(***************************************************************************)
SpecMetricsInit ==
    /\ settingsDoc \in {NoDoc, DefaultSettings,
                        [DefaultSettings EXCEPT !.enable_monitoring = FALSE]}
    /\ metrics = EmptyStore
    /\ clock = 0
    /\ monitor \in {IdleMonitor(h) : h \in Hosts}
    /\ LevelIdle /\ LogIdle /\ SettingsIdle /\ AlertIdle /\ SaveIdle

MetricsNext ==
    \/ StartCollect
    \/ CollectGroup
    \/ CommitMetrics
    \/ DatabaseCollect
    \/ DoGetLatestMetrics

SpecMetrics == SpecMetricsInit /\ [][MetricsNext]_vars

(***************************************************************************)
(* Claims about metric sampling (SpecMetrics)                              *)
(***************************************************************************)
MonitoringEnabled == settingsDoc.exists /\ settingsDoc.enable_monitoring

\* the records inserted since the running (or last) pass began
PassRecords(store) ==
    {rec \in SeqToSet(store.pending) \cup SeqToSet(store.committed) :
        rec.timestamp > monitor.start}

Holds(recs, step) ==
    \E rec \in recs :
        rec.metric_name = step.name /\ rec.metric_type = step.type
        /\ rec.unit = step.unit

\* C8: the five sampling groups are isolated: a failure inside one group
\* (a raising call, or a failing insert) does not stop the groups after it,
\* so when collect_metrics ends every group has run, each group has saved
\* every metric before its failing call except the one whose insert failed,
\* and the commit at the end has committed all of them.
C8_GroupsIsolatedAndCommitted ==
    /\ (MonitoringEnabled /\ monitor.passes > 0
           /\ monitor.pc \in {"database", "idle"}) =>
           /\ monitor.committed
           /\ \A i \in 1..Len(Groups) : monitor.outcome[Groups[i]].ran
    /\ \A i \in 1..Len(Groups) :
           LET o == monitor.outcome[Groups[i]]
               steps == GroupSteps(Groups[i], monitor.host)
           IN o.ran =>
                  \A k \in SaveSteps(steps) :
                      Holds(PassRecords(metrics), steps[k])
                          <=> (k # o.failSave /\ (o.failSample = 0 \/ k < o.failSample))
    /\ monitor.committed =>
           \A rec \in SeqToSet(metrics.pending) : rec.metric_type = "Database"

\* the CPU group raised at its first call, and the pass still saved and
\* committed the memory, disk, network and process metrics
C8_Witness ==
    /\ monitor.pc = "database"
    /\ monitor.committed
    /\ monitor.outcome["cpu"].raised
    /\ monitor.outcome["cpu"].failSample = 1
    /\ \A name \in {"memory_percent", "disk_percent", "net_connections",
                    "process_count"} :
           \E rec \in SeqToSet(metrics.committed) :
               rec.metric_name = name /\ rec.timestamp > monitor.start

\* the query (a "sample" step) whose result save step k stores
QueryOf(steps, k) ==
    CHOOSE q \in SampleSteps(steps) :
        q < k /\ \A r \in SampleSteps(steps) : r < k => r <= q

\* C7: the four queries of DatabaseMonitor.collect_metrics are isolated: when
\* one query fails, the metrics of the other queries are still saved and
\* committed in that pass.
C7_DatabaseQueriesIsolated ==
    LET o == monitor.outcome["database"]
        steps == DatabaseSteps(monitor.host)
    IN (monitor.pc = "idle" /\ o.ran /\ o.failSample # 0 /\ o.failSave = 0) =>
           \A k \in SaveSteps(steps) :
               QueryOf(steps, k) # o.failSample =>
                   \E rec \in SeqToSet(metrics.committed) :
                       /\ rec.metric_name = steps[k].name
                       /\ rec.timestamp > monitor.start

\* what does hold of the database pass: the metrics of the queries before the
\* failing one are saved (not committed), and nothing after it is
C7_DatabaseStopsAtFailingQuery ==
    LET o == monitor.outcome["database"]
        steps == DatabaseSteps(monitor.host)
    IN (monitor.pc = "idle" /\ o.ran /\ o.failSample # 0 /\ o.failSave = 0) =>
           \A k \in SaveSteps(steps) :
               Holds(SeqToSet(metrics.pending), steps[k]) <=> k < o.failSample

\* C18: without a settings record, or with enable_monitoring false, the
\* collect_metrics of SystemMonitor and of DatabaseMonitor return at once:
\* no step of a collection pass changes the Metric store.
C18_NoMetricsWhenDisabled ==
    [][~MonitoringEnabled =>
           /\ metrics' = metrics
           /\ \A g \in DOMAIN monitor'.outcome : ~monitor'.outcome[g].ran]_vars

\* a whole collect_all_metrics ran with monitoring switched off and stored
\* nothing
C18_Witness ==
    /\ settingsDoc.exists /\ ~settingsDoc.enable_monitoring
    /\ monitor.passes >= 1 /\ monitor.pc = "idle"
    /\ metrics = EmptyStore

\* the rows of a type and name that get_latest_metrics had to choose from
RowsOf(rows, type, name) ==
    {r \in SeqToSet(rows) : r.metric_type = type /\ r.metric_name = name}

\* C26: get_latest_metrics returns, for each metric type and each metric
\* name that has at least one stored record of that type, exactly one entry,
\* and that entry is the record with the maximum timestamp for that name,
\* however many distinct metric names the type has.
C26_OneLatestEntryPerName ==
    apiCall.op = "get_latest_metrics" =>
        \A t \in DOMAIN apiCall.result :
            \A stored \in SeqToSet(apiCall.rows) :
                stored.metric_type = t =>
                    LET name == stored.metric_name
                        entries == {k \in 1..Len(apiCall.result[t]) :
                                       apiCall.result[t][k].metric_name = name}
                    IN /\ Cardinality(entries) = 1
                       /\ \A k \in entries :
                              /\ apiCall.result[t][k] \in RowsOf(apiCall.rows, t, name)
                              /\ \A r \in RowsOf(apiCall.rows, t, name) :
                                     r.timestamp <= apiCall.result[t][k].timestamp

\* what does hold: the claim for the names among the 20 newest rows of a
\* type, and at most one entry for any name
C26_LatestAmongNewestRows ==
    apiCall.op = "get_latest_metrics" =>
        \A t \in DOMAIN apiCall.result :
            LET page == LatestPage(apiCall.rows, t)
            IN /\ \A i \in 1..Len(page) :
                      \E k \in 1..Len(apiCall.result[t]) :
                          /\ apiCall.result[t][k].metric_name = page[i].metric_name
                          /\ \A r \in RowsOf(apiCall.rows, t, page[i].metric_name) :
                                 r.timestamp <= apiCall.result[t][k].timestamp
               /\ \A j, k \in 1..Len(apiCall.result[t]) :
                      apiCall.result[t][j].metric_name
                          = apiCall.result[t][k].metric_name => j = k

\* every Metric row of the store, in insertion order
AllRows(store) == store.committed \o store.pending

IsPrefixOf(a, b) == Len(a) <= Len(b) /\ \A i \in 1..Len(a) : a[i] = b[i]

\* the (type, name, unit) entries of a set of Metric rows
Shape(recs) == {<<rec.metric_type, rec.metric_name, rec.unit>> : rec \in recs}

\* the rows stored before the running (or last) pass began
EarlierRecords(store) == SeqToSet(AllRows(store)) \ PassRecords(store)

\* C21: the Metric history is append-only under sampling: every step of a
\* collection pass leaves the rows already stored as they were and in place,
\* adding only new rows after them; and two consecutive passes without a
\* failure against the same host leave two separate batches of rows with the
\* same set of (type, name, unit) entries.
C21_HistoryAppendOnly ==
    /\ [][IsPrefixOf(AllRows(metrics), AllRows(metrics'))]_vars
    /\ []((monitor.passes = 2 /\ monitor.pc = "idle" /\ monitor.failures = 0
              /\ MonitoringEnabled) =>
             /\ Shape(PassRecords(metrics)) = Shape(EarlierRecords(metrics))
             /\ Cardinality(PassRecords(metrics))
                    = Cardinality(EarlierRecords(metrics))
             /\ Len(AllRows(metrics))
                    = 2 * Cardinality(PassRecords(metrics)))

\* two whole passes without a failure stored two batches
C21_Witness ==
    /\ monitor.passes = 2 /\ monitor.pc = "idle" /\ monitor.failures = 0
    /\ MonitoringEnabled
    /\ PassRecords(metrics) # {}
    /\ EarlierRecords(metrics) # {}
    /\ metrics.pending = <<>>

LoadAverageNames == {"load_avg_1min", "load_avg_5min", "load_avg_15min"}

\* the CPU sampling of the running (or last) pass went through without a
\* raising call and without a failing insert
CpuPassSucceeded ==
    /\ monitor.outcome["cpu"].ran
    /\ monitor.outcome["cpu"].failSample = 0
    /\ monitor.outcome["cpu"].failSave = 0

\* C25: every successful CPU sampling pass of SystemMonitor contains the
\* three metrics load_avg_1min, load_avg_5min and load_avg_15min; on a host
\* that does not support load averages each of them is stored with value 0.
C25_LoadAveragesAlwaysEmitted ==
    CpuPassSucceeded =>
        \A name \in LoadAverageNames :
            \E rec \in PassRecords(metrics) :
                /\ rec.metric_type = "System"
                /\ rec.metric_name = name
                /\ ~monitor.host.getloadavg => rec.value = 0

\* what does hold: the three load averages are stored exactly on the hosts
\* that have os.getloadavg
C25_LoadAveragesOnlyWhereSupported ==
    CpuPassSucceeded =>
        \A name \in LoadAverageNames :
            monitor.host.getloadavg
                <=> \E rec \in PassRecords(metrics) : rec.metric_name = name

(***************************************************************************)
(* SpecAlert: stored readings, a settings document with recipients, and    *)
(* alert evaluation passes over them.                                      *)
(***************************************************************************)
Recipient(user, notify) == [user |-> user, notify_on_alert |-> notify]

RecipientLists ==
    {<<>>,
     <<Recipient("ops1", TRUE)>>,
     <<Recipient("ops1", TRUE), Recipient("ops2", TRUE)>>,
     <<Recipient("ops1", TRUE), Recipient("ops2", FALSE),
       Recipient("ops3", TRUE)>>}

AlertSettings ==
    {NoDoc}
    \cup {[DefaultSettings EXCEPT !.enable_alerts = on, !.alert_recipients = rs] :
             on \in BOOLEAN, rs \in RecipientLists}

\* successive stored readings of one metric, oldest first, in hundredths of a
\* percent
CpuHistories == {<<>>, <<7990>>, <<8000>>, <<8530>>, <<8530, 8000>>, <<8000, 8001>>}
MemoryHistories == {<<>>, <<8500>>, <<9025>>}
DiskHistories == {<<>>, <<9000>>, <<9575>>}

Reading(type, name, value, ts) ==
    [timestamp |-> ts, metric_type |-> type, metric_name |-> name,
     value |-> value, unit |-> "%", details |-> ""]

\* the rows a few collection passes leave: pass p stores the p-th reading of
\* each history, and a network row that is no 'System' reading
\* newestFirst: the rows of the second pass reached the table first
StoredRows(cpu, mem, disk, newestFirst) ==
    LET Pass(p) ==
            (IF p <= Len(cpu)
             THEN <<Reading("System", "cpu_percent", cpu[p], 10 * p + 1)>>
             ELSE <<>>)
            \o (IF p <= Len(mem)
                THEN <<Reading("System", "memory_percent", mem[p], 10 * p + 2)>>
                ELSE <<>>)
            \o (IF p <= Len(disk)
                THEN <<Reading("System", "disk_percent", disk[p], 10 * p + 3)>>
                ELSE <<>>)
    IN (IF newestFirst THEN Pass(2) \o Pass(1) ELSE Pass(1) \o Pass(2))
       \o <<Reading("Network", "disk_percent", 9900, 30)>>

SpecAlertInit ==
    /\ settingsDoc \in AlertSettings
    /\ cache = NoCache
    /\ saveResult = NoSave
    /\ readers = [r \in 1..NumReaders |-> IdleReader]
    /\ writes = 0
    /\ install = NoSetupCall(settingsDoc)
    /\ \E cpu \in CpuHistories, mem \in MemoryHistories, disk \in DiskHistories,
          newestFirst \in BOOLEAN :
           metrics = [pending |-> <<>>,
                      committed |-> StoredRows(cpu, mem, disk, newestFirst)]
    /\ clock = 31
    /\ monitor = IdleMonitor(CHOOSE h \in Hosts : TRUE)
    /\ LevelIdle /\ LogIdle /\ AlertIdle /\ SaveIdle

AlertNext == CheckAlerts \/ SendAlert

SpecAlert == SpecAlertInit /\ [][AlertNext]_vars

\* the stored 'System' row of a metric with the greatest timestamp
IsLatestStored(row, name) ==
    /\ row \in SeqToSet(metrics.committed)
    /\ row.metric_type = "System" /\ row.metric_name = name
    /\ \A other \in SeqToSet(metrics.committed) :
           (other.metric_type = "System" /\ other.metric_name = name)
               => other.timestamp <= row.timestamp

AlertsOfType(type) ==
    {i \in 1..Len(alertPass.alerts) : alertPass.alerts[i].type = type}

\* C2: a pass of check_alerts that evaluated (alerts enabled, readings loaded)
\* holds an alert for a metric exactly when the latest stored reading is
\* strictly above the threshold, at most one alert per metric, and the alert's
\* message holds the reading with one decimal and the threshold; a reading of
\* 85.3 against 80 reads "85.3" and "80", a reading equal to the threshold
\* gives no alert.
C2_AlertIffStrictlyAbove ==
    (alertPass.evaluated /\ ~alertPass.queryFailed) =>
        \A c \in 1..Len(AlertChecks) :
            LET check == AlertChecks[c]
                threshold == settingsDoc[check.field]
                breaching == {row \in SeqToSet(metrics.committed) :
                                 /\ IsLatestStored(row, check.metric)
                                 /\ row.value > threshold * 100}
            IN /\ (breaching # {}) <=> (AlertsOfType(check.type) # {})
               /\ Cardinality(AlertsOfType(check.type)) <= 1
               /\ \A row \in SeqToSet(metrics.committed) :
                      (IsLatestStored(row, check.metric) /\ row.value = threshold * 100)
                          => AlertsOfType(check.type) = {}
               /\ \A i \in AlertsOfType(check.type), row \in breaching :
                      LET message == alertPass.alerts[i].message
                      IN /\ Contains(message, Format1(row.value))
                         /\ Contains(message, IntText(threshold))
                         /\ row.value = 8530 =>
                                Contains(message, <<"8","5",".","3">>)
                         /\ threshold = 80 => Contains(message, <<"8","0">>)

\* a pass found cpu at 85.3 over 80 after an older pass and alerted once for
\* it, while memory stood exactly at its threshold of 85 and raised nothing
C2_Witness ==
    /\ alertPass.evaluated /\ ~alertPass.queryFailed
    /\ Cardinality(AlertsOfType("CPU")) = 1
    /\ \E row \in SeqToSet(metrics.committed) :
           IsLatestStored(row, "cpu_percent") /\ row.value = 8530
    /\ \E row \in SeqToSet(metrics.committed) :
           IsLatestStored(row, "memory_percent") /\ row.value = 8500
    /\ AlertsOfType("Memory") = {}
    /\ \A i \in AlertsOfType("CPU") :
           alertPass.alerts[i].message = <<"C","P","U"," ","u","s","a","g","e"," ","i","s"," ","8","5",".","3","%",","," ","e","x","c","e","e","d","i","n","g"," ","t","h","r","e","s","h","o","l","d"," ","o","f"," ","8","0","%">>

NotifiedFor(user, alert) ==
    \E doc \in SeqToSet(notifications.pending) \cup SeqToSet(notifications.committed) :
        /\ doc.for_user = user
        /\ doc.email_content = alert.message

\* C6: when the insert of one recipient's notification fails, the remaining
\* enabled recipients of that alert are still notified, and so are the
\* recipients of the other alerts of the pass.
C6_FailureDoesNotBlockOthers ==
    (alertPass.pc = "idle" /\ alertPass.evaluated) =>
        \A a \in 1..Len(alertPass.sent) :
            \A r \in 1..Len(Recipients(settingsDoc)) :
                LET recipient == Recipients(settingsDoc)[r]
                IN (recipient.notify_on_alert /\ r # alertPass.sent[a].failAt)
                       => NotifiedFor(recipient.user, alertPass.alerts[a])

\* what does hold: a failure in one alert's dispatch leaves the dispatch of
\* the other alerts of the pass alone
C6_OtherAlertsStillSent ==
    (alertPass.pc = "idle" /\ alertPass.evaluated) =>
        /\ Len(alertPass.sent) = Len(alertPass.alerts)
        /\ \A a \in 1..Len(alertPass.sent) :
               alertPass.sent[a].failAt = 0 =>
                   \A r \in 1..Len(Recipients(settingsDoc)) :
                       Recipients(settingsDoc)[r].notify_on_alert =>
                           NotifiedFor(Recipients(settingsDoc)[r].user,
                                       alertPass.alerts[a])

\* the Notification Log records created since the pass began
CreatedInPass ==
    LET all == notifications.committed \o notifications.pending
    IN SubSeq(all, alertPass.before + 1, Len(all))

EnabledRecipients ==
    {r \in 1..Len(Recipients(settingsDoc)) :
        Recipients(settingsDoc)[r].notify_on_alert}

\* the checks whose metric's latest stored reading is above its threshold
BreachedNow ==
    {c \in 1..Len(AlertChecks) :
        \E row \in SeqToSet(metrics.committed) :
            /\ IsLatestStored(row, AlertChecks[c].metric)
            /\ row.value > settingsDoc[AlertChecks[c].field] * 100}

\* the pass has ended, it evaluated with the readings loaded, and no insert
\* of a notification failed in it
PassCompletedCleanly ==
    /\ alertPass.pc = "idle"
    /\ alertPass.evaluated /\ ~alertPass.queryFailed
    /\ \A a \in 1..Len(alertPass.sent) : alertPass.sent[a].failAt = 0

\* C11: a pass of check_alerts in which every insert succeeds creates
\* (breached metrics) x (recipients with notify_on_alert) notifications: for
\* each alert and each enabled recipient exactly one, addressed to that
\* recipient and carrying the alert's message, and none for a recipient with
\* notifications disabled.
C11_OneNotificationPerAlertAndRecipient ==
    PassCompletedCleanly =>
        /\ Len(CreatedInPass)
               = Cardinality(BreachedNow) * Cardinality(EnabledRecipients)
        /\ \A a \in 1..Len(alertPass.alerts), r \in EnabledRecipients :
               Cardinality({k \in 1..Len(CreatedInPass) :
                   /\ CreatedInPass[k].for_user = Recipients(settingsDoc)[r].user
                   /\ CreatedInPass[k].email_content = alertPass.alerts[a].message
                   /\ CreatedInPass[k].subject
                          = <<"DevOps Alert: ", alertPass.alerts[a].type>>}) = 1
        /\ \A k \in 1..Len(CreatedInPass) :
               \E r \in EnabledRecipients :
                   CreatedInPass[k].for_user = Recipients(settingsDoc)[r].user

\* two metrics breached with recipients ops1 and ops3 enabled and ops2 not:
\* four notifications, none for ops2
C11_Witness ==
    /\ PassCompletedCleanly
    /\ Cardinality(BreachedNow) = 2
    /\ Len(Recipients(settingsDoc)) = 3
    /\ Cardinality(EnabledRecipients) = 2
    /\ Len(CreatedInPass) = 4
    /\ \A k \in 1..Len(CreatedInPass) : CreatedInPass[k].for_user # "ops2"

\* C12: there is no deduplication across passes: a second (or later) pass
\* over readings still above their thresholds emits every alert again, so
\* the notification count grows by the full alert x enabled-recipient count.
C12_SustainedBreachAlertsAgain ==
    (PassCompletedCleanly /\ alertPass.passes >= 2) =>
        /\ Len(alertPass.alerts) = Cardinality(BreachedNow)
        /\ Len(notifications.committed) + Len(notifications.pending)
               = alertPass.before
                     + Cardinality(BreachedNow) * Cardinality(EnabledRecipients)
        /\ \A k \in 1..Len(CreatedInPass) :
               \E a \in 1..Len(alertPass.alerts) :
                   CreatedInPass[k].email_content = alertPass.alerts[a].message

\* the second pass doubled the notifications of the first
C12_Witness ==
    /\ PassCompletedCleanly /\ alertPass.passes = 2
    /\ Cardinality(BreachedNow) >= 1
    /\ Cardinality(EnabledRecipients) >= 1
    /\ alertPass.before
           = Cardinality(BreachedNow) * Cardinality(EnabledRecipients)
    /\ Len(notifications.committed) = 2 * alertPass.before
    /\ \A k \in 1..alertPass.before :
           notifications.committed[k]
               = notifications.committed[alertPass.before + k]

SystemNames ==
    {row.metric_name : row \in {r \in SeqToSet(metrics.committed) :
                                   r.metric_type = "System"}}

\* C13: _get_latest_metrics maps every metric name with a System row to the
\* value of that name's row with the greatest timestamp, and to nothing
\* else; rows of other types never contribute.
C13_LatestPerSystemName ==
    (alertPass.evaluated /\ ~alertPass.queryFailed) =>
        /\ DOMAIN alertPass.latest = SystemNames
        /\ \A name \in SystemNames :
               \E row \in SeqToSet(metrics.committed) :
                   /\ IsLatestStored(row, name)
                   /\ alertPass.latest[name] = row.value

\* the later cpu row sits before the older one in the table and is the one
\* kept, and the Network row named disk_percent gives no entry
C13_Witness ==
    /\ alertPass.evaluated /\ ~alertPass.queryFailed
    /\ Len(metrics.committed) >= 3
    /\ metrics.committed[1].metric_name = "cpu_percent"
    /\ metrics.committed[1].timestamp > metrics.committed[2].timestamp
    /\ metrics.committed[2].metric_name = "cpu_percent"
    /\ alertPass.latest["cpu_percent"] = metrics.committed[1].value
    /\ metrics.committed[1].value # metrics.committed[2].value
    /\ "disk_percent" \notin DOMAIN alertPass.latest
    /\ \E row \in SeqToSet(metrics.committed) :
           row.metric_name = "disk_percent" /\ row.metric_type = "Network"

AlertsSwitchedOff == ~settingsDoc.exists \/ ~settingsDoc.enable_alerts

\* C19: without a settings record, or with enable_alerts false, check_alerts
\* creates no notification, whatever the stored readings are.
C19_NoAlertsWhenDisabled ==
    [][AlertsSwitchedOff => notifications' = notifications]_vars

\* a pass ran with alerts switched off, over a cpu reading above the
\* threshold and with an enabled recipient, and left no notification
C19_Witness ==
    /\ settingsDoc.exists /\ ~settingsDoc.enable_alerts
    /\ alertPass.passes >= 1 /\ alertPass.pc = "idle"
    /\ 1 \in BreachedNow
    /\ EnabledRecipients # {}
    /\ notifications = EmptyStore

(***************************************************************************)
(* SpecParse: log lines made of timestamps of the three shapes and of      *)
(* words, handed to _parse_log_line and to api.extract_timestamp.          *)
(***************************************************************************)
MaxTokens == 3

T_ISO == <<"2","0","2","4","-","0","1","-","1","5"," ","1","0",":","3","0",":","0","0">>
T_ISO_FRACTION == <<"2","0","2","4","-","0","1","-","1","5"," ","1","0",":","3","0",":","0","0",".","1","2","3">>
T_ISO_LATER == <<"2","0","2","4","-","0","1","-","1","6"," ","0","9",":","0","0",":","0","0">>
T_COMMON_LOG == <<"1","5","/","J","a","n","/","2","0","2","4",":","1","0",":","3","0",":","0","0">>
T_SYSLOG == <<"J","a","n"," ","1","5"," ","1","0",":","3","0",":","0","0">>
T_ERROR == <<"E","R","R","O","R">>
T_DISK_FULL == <<"d","i","s","k"," ","f","u","l","l">>

Tokens == {T_ISO, T_ISO_FRACTION, T_ISO_LATER, T_COMMON_LOG, T_SYSLOG,
           T_ERROR, T_DISK_FULL}

ParseInputs == {JoinWith(ts, <<" ">>) : ts \in SeqsUpTo(Tokens, MaxTokens)}

\* now_datetime().isoformat() at the time of the call
PARSE_NOW == <<"2","0","2","4","-","0","2","-","0","1","T","1","2",":","0","0",":","0","0",".","5">>

ParseInit ==
    /\ line \in ParseInputs
    /\ level = [collector |-> None, api |-> None]
    /\ parsed = NoParsed
    /\ LogIdle /\ settingsDoc = NoDoc /\ SettingsIdle
    /\ MetricIdle /\ AlertIdle /\ SaveIdle

\* LogCollector._parse_log_line(line, "frappe.log")
DoParseLogLine ==
    /\ ~parsed.collector.done
    /\ parsed' = [parsed EXCEPT
           !.collector = [done |-> TRUE,
                          entry |-> ParseLogLine(line, "frappe.log", PARSE_NOW)]]
    /\ UNCHANGED <<line, level, logVars, settingsVars, metricVars, alertVars,
                   saveVars>>

\* api.extract_timestamp(line)
DoApiExtractTimestamp ==
    /\ ~parsed.api.done
    /\ parsed' = [parsed EXCEPT
           !.api = [done |-> TRUE, timestamp |-> ApiExtractTimestamp(line)]]
    /\ UNCHANGED <<line, level, logVars, settingsVars, metricVars, alertVars,
                   saveVars>>

ParseNext == DoParseLogLine \/ DoApiExtractTimestamp

SpecParse == ParseInit /\ [][ParseNext]_vars

\* position of the first occurrence of sub in s (0: none)
FindSub(s, sub) ==
    LET at == {p \in 1..(Len(s) - Len(sub) + 1) :
                  SubSeq(s, p, p + Len(sub) - 1) = sub}
    IN IF at = {} \/ sub = <<>> THEN 0
       ELSE CHOOSE p \in at : \A q \in at : p <= q

\* s without the first occurrence of sub, a blank in its place
Removed(s, sub) ==
    LET p == FindSub(s, sub)
    IN IF p = 0 THEN s
       ELSE SubSeq(s, 1, p - 1) \o <<" ">> \o SubSeq(s, p + Len(sub), Len(s))

RECURSIVE TextWords(_)
\* the maximal runs of non-blank characters of s, in order
TextWords(s) ==
    LET t == LStrip(s)
    IN IF t = <<>> THEN <<>>
       ELSE LET n == CHOOSE k \in 1..Len(t) :
                         /\ \A j \in 1..k : t[j] \notin Whitespace
                         /\ (k = Len(t) \/ t[k + 1] \in Whitespace)
            IN <<SubSeq(t, 1, n)>> \o TextWords(SubSeq(t, n + 1, Len(t)))

\* some timestamp pattern of the collector matches in s
HasTimestamp(s) == \E i \in 1..Len(PATTERNS) : Search(PATTERNS[i], s) # <<>>

\* the timestamp _parse_log_line extracted from the line (none: <<>>)
ExtractedOf(entry) ==
    IF HasTimestamp(entry.raw) THEN entry.timestamp ELSE <<>>

\* C14: the cleaned message of a parsed line is the line with exactly the
\* extracted timestamp (and the blanks around it) removed and every other
\* word kept, and raw is the line itself; "2024-01-15 10:30:00 ERROR disk
\* full" gives timestamp "2024-01-15 10:30:00", level ERROR, message "ERROR
\* disk full".
C14_MessageIsLineWithoutTimestamp ==
    parsed.collector.done =>
        LET entry == parsed.collector.entry
        IN /\ entry.raw = line
           /\ TextWords(entry.message)
                  = TextWords(Removed(line, ExtractedOf(entry)))
           /\ line = LINE_A =>
                  /\ entry.timestamp = T_ISO
                  /\ entry.level = "ERROR"
                  /\ entry.message = <<"E","R","R","O","R"," ","d","i","s","k"," ","f","u","l","l">>

\* what does hold: raw is the line, the example of the claim, and the
\* message of a line that holds no timestamp besides the extracted one
C14_SingleTimestampCleaned ==
    parsed.collector.done =>
        LET entry == parsed.collector.entry
        IN /\ entry.raw = line
           /\ ~HasTimestamp(Removed(line, ExtractedOf(entry))) =>
                  /\ TextWords(entry.message)
                         = TextWords(Removed(line, ExtractedOf(entry)))
                  /\ entry.message = Strip(entry.message)
           /\ line = LINE_A =>
                  /\ entry.timestamp = T_ISO
                  /\ entry.level = "ERROR"
                  /\ entry.message = <<"E","R","R","O","R"," ","d","i","s","k"," ","f","u","l","l">>

\* the pattern of pts that is first in the list among those matching in s
\* (0: none)
EarliestPattern(pts, s) ==
    LET hits == {i \in 1..Len(pts) : Search(pts[i], s) # <<>>}
    IN IF hits = {} THEN 0 ELSE CHOOSE i \in hits : \A j \in hits : i <= j

MatchText(pt, s) == SubSeq(s, Search(pt, s)[1], Search(pt, s)[2])

\* C15: timestamp extraction, in the collector and in the api, returns the
\* match of the first pattern in the order ISO-like, common-log, syslog that
\* matches anywhere in the line, wherever the matches of later patterns sit;
\* a line matching none gives no timestamp, and the parsed entry then carries
\* the current time.
C15_FirstPatternWins ==
    /\ parsed.collector.done =>
           LET i == EarliestPattern(PATTERNS, line)
           IN parsed.collector.entry.timestamp
                  = IF i = 0 THEN PARSE_NOW ELSE MatchText(PATTERNS[i], line)
    /\ parsed.api.done =>
           LET i == EarliestPattern(API_PATTERNS, line)
           IN parsed.api.timestamp
                  = IF i = 0 THEN <<>> ELSE MatchText(API_PATTERNS[i], line)

\* a syslog timestamp opens the line and an ISO one follows: both parsers
\* return the ISO one
C15_Witness ==
    /\ parsed.collector.done /\ parsed.api.done
    /\ line = T_SYSLOG \o <<" ">> \o T_ISO
    /\ parsed.collector.entry.timestamp = T_ISO
    /\ parsed.api.timestamp = T_ISO

\* a line without a timestamp: the entry carries the current time
C15_FallbackReached ==
    /\ parsed.collector.done /\ parsed.api.done
    /\ line = T_ERROR
    /\ parsed.collector.entry.timestamp = PARSE_NOW
    /\ parsed.api.timestamp = <<>>

(***************************************************************************)
(* utils.py: search_in_logs and tail_log_file                              *)
(***************************************************************************)
\* str.lower() on one ASCII character
LowerChar(c) ==
    IF \E i \in 1..26 : UpperCase[i] = c
    THEN LowerCase[CHOOSE i \in 1..26 : UpperCase[i] = c]
    ELSE c

\* str.lower()
Lower(s) == [i \in 1..Len(s) |-> LowerChar(s[i])]

\* the lines a text file object yields when iterated: each ends with its
\* "\n", but for a last line the file does not end
FileLines(content) ==
    LET segs == Split(content, "\n")
    IN [k \in 1..(IF segs[Len(segs)] = <<>> THEN Len(segs) - 1 ELSE Len(segs)) |->
           IF k < Len(segs) THEN segs[k] \o <<"\n">> ELSE segs[k]]

RECURSIVE SearchLines(_, _, _, _, _, _)
\* `for line_num, line in enumerate(f, 1)` of search_in_logs from line k on;
\* returned: the function returned from inside the loop
SearchLines(ls, k, name, term, results, max_results) ==
    IF k > Len(ls) THEN [results |-> results, returned |-> FALSE]
    ELSE IF Contains(Lower(ls[k]), Lower(term))
    THEN LET found == Append(results, [file |-> name, line |-> k,
                                       content |-> Strip(ls[k])])
         IN IF Len(found) >= max_results
            THEN [results |-> found, returned |-> TRUE]
            ELSE SearchLines(ls, k + 1, name, term, found, max_results)
    ELSE SearchLines(ls, k + 1, name, term, results, max_results)

RECURSIVE SearchFiles(_, _, _, _, _, _)
\* `for log_file in log_files` of search_in_logs from file i on
SearchFiles(log_files, i, f, term, results, max_results) ==
    IF i > Len(log_files) THEN results
    ELSE IF ~f[log_files[i]].exists
    THEN SearchFiles(log_files, i + 1, f, term, results, max_results)
    ELSE LET scan == SearchLines(FileLines(f[log_files[i]].content), 1,
                                 Basename(log_files[i]), term, results,
                                 max_results)
         IN IF scan.returned THEN scan.results
            ELSE SearchFiles(log_files, i + 1, f, term, scan.results, max_results)

\* utils.search_in_logs
SearchInLogs(log_files, f, term, max_results) ==
    SearchFiles(log_files, 1, f, term, <<>>, max_results)

CHUNK_SIZE == 8192

\* f.seek(offset, 1) on a file opened in text mode: a nonzero offset raises
\* io.UnsupportedOperation
TextSeekCurRaises(offset) == offset # 0

\* utils.tail_log_file: the first pass of its loop seeks back by
\* min(chunk_size, file_size) from the end of the text-mode file; the
\* exception is caught by `except Exception`, which returns []
TailLogFile(file, lines) ==
    IF ~file.exists THEN <<>>
    ELSE LET file_size == Len(file.content)
             data == <<>>
         IN IF 0 < file_size /\ Len(data) < lines
            THEN IF TextSeekCurRaises(0 - Min(CHUNK_SIZE, file_size))
                 THEN <<>>
                 ELSE LastN(Split(file.content, "\n"), lines)
            ELSE IF lines = 0 THEN data ELSE LastN(data, lines)

\* the position in time of the timestamps the model's lines carry: the
\* common-log and the syslog stamp name the instant of T_ISO, the fraction is
\* 0.123 s after it, T_ISO_LATER the next morning, the fallback weeks later
ChronoRank(ts) ==
    CASE ts = T_ISO -> 0
      [] ts = T_COMMON_LOG -> 0
      [] ts = T_SYSLOG -> 0
      [] ts = T_ISO_FRACTION -> 1
      [] ts = T_ISO_LATER -> 2
      [] ts = PARSE_NOW -> 3
      [] OTHER -> -1

\* YYYY-MM-DD, a blank or T, HH:MM:SS, and an optional fraction
IsIsoLike(ts) ==
    /\ Len(ts) >= 19
    /\ \A i \in {1, 2, 3, 4, 6, 7, 9, 10, 12, 13, 15, 16, 18, 19} : ts[i] \in Digits
    /\ ts[5] = "-" /\ ts[8] = "-"
    /\ ts[11] \in {" ", "T"}
    /\ ts[14] = ":" /\ ts[17] = ":"
    /\ Len(ts) > 19 =>
           /\ ts[20] = "."
           /\ \A i \in 21..Len(ts) : ts[i] \in Digits

\* the timestamps of the entries made from a line with one stamp of each
\* shape, and from a line without a stamp
ReferenceStamps ==
    {ParseLogLine(l, "frappe.log", PARSE_NOW).timestamp :
        l \in {T_ISO, T_ISO_FRACTION, T_ISO_LATER, T_COMMON_LOG, T_SYSLOG, T_ERROR}}

\* C28: every timestamp an entry of _parse_log_line carries (an extracted
\* ISO-like, common-log or syslog stamp, or the current-time fallback) is in
\* one normalized ISO-like format, so that against any other entry the
\* earlier of the two has the lexicographically smaller timestamp string.
C28_TimestampsNormalized ==
    parsed.collector.done =>
        LET ts == parsed.collector.entry.timestamp
        IN /\ IsIsoLike(ts)
           /\ \A other \in ReferenceStamps :
                  /\ ChronoRank(ts) < ChronoRank(other) => StrLess(ts, other)
                  /\ ChronoRank(other) < ChronoRank(ts) => StrLess(other, ts)

\* what does hold: the timestamp is the text matched in the line, or the
\* fallback, and stamps extracted by the first (ISO-like) pattern are
\* ordered as their instants among themselves
C28_IsoStampsOrdered ==
    parsed.collector.done =>
        LET ts == parsed.collector.entry.timestamp
            extracted == {T_ISO, T_ISO_FRACTION, T_ISO_LATER}
        IN /\ ChronoRank(ts) # -1
           /\ ts \in extracted =>
                  \A other \in ReferenceStamps \cap extracted :
                      ChronoRank(ts) < ChronoRank(other) => StrLess(ts, other)

(***************************************************************************)
(* SpecUtils: the file systems of SpecLog, searched and tailed.            *)
(***************************************************************************)
MaxResults == 2

SearchTerms == {<<"e","r","r","o","r">>, <<"O","K">>, <<"o">>, <<"z","z">>}

SearchFileLists ==
    {<<"frappe.log", "web.log">>, <<"web.log", "frappe.log">>,
     <<"nginx/error.log", "error.log">>}

DoSearchInLogs ==
    \E files \in SearchFileLists, term \in SearchTerms,
       max_results \in 0..MaxResults :
        /\ utilCall = NoCall
        /\ utilCall' = [op |-> "search_in_logs", files |-> files, term |-> term,
                        limit |-> max_results,
                        result |-> SearchInLogs(files, fs, term, max_results)]
        /\ UNCHANGED <<fs, logs, apiCall, levelVars, settingsVars, metricVars, alertVars,
                       saveVars>>

DoTailLogFile ==
    \E path \in Paths, lines \in 0..MaxLines :
        /\ utilCall = NoCall
        /\ utilCall' = [op |-> "tail_log_file", files |-> <<path>>,
                        term |-> <<>>, limit |-> lines,
                        result |-> TailLogFile(fs[path], lines)]
        /\ UNCHANGED <<fs, logs, apiCall, levelVars, settingsVars, metricVars, alertVars,
                       saveVars>>

SpecUtilsInit ==
    /\ LogInit
    /\ settingsDoc = NoDoc
    /\ LevelIdle /\ SettingsIdle /\ MetricIdle /\ AlertIdle /\ SaveIdle

UtilsNext == DoSearchInLogs \/ DoTailLogFile

SpecUtils == SpecUtilsInit /\ [][UtilsNext]_vars

\* the matching lines of one file, in line order
MatchesOfFile(path, term) ==
    LET ls == LinesOfFile(fs[path].content)
        hit == {k \in 1..Len(ls) : Contains(Lower(ls[k]), Lower(term))}
        Nth[n \in 0..Len(ls)] ==
            IF n = 0 THEN <<>>
            ELSE IF n \in hit
            THEN Append(Nth[n - 1], [file |-> Basename(path), line |-> n,
                                     content |-> Strip(ls[n])])
            ELSE Nth[n - 1]
    IN IF fs[path].exists THEN Nth[Len(ls)] ELSE <<>>

\* all matching lines, in file-list order then line order
AllMatches(files, term) ==
    LET Upto[i \in 0..Len(files)] ==
            IF i = 0 THEN <<>> ELSE Upto[i - 1] \o MatchesOfFile(files[i], term)
    IN Upto[Len(files)]

\* C16: search_in_logs returns exactly the first min(max_results, M) of the
\* M matching lines (case-insensitive), in file-list order then line order,
\* as (basename, 1-based line number, stripped content); never more than
\* max_results, for any max_results >= 0; missing files are skipped.
C16_SearchReturnsFirstMatches ==
    utilCall.op = "search_in_logs" =>
        LET all == AllMatches(utilCall.files, utilCall.term)
        IN /\ utilCall.result = SubSeq(all, 1, Min(utilCall.limit, Len(all)))
           /\ Len(utilCall.result) <= utilCall.limit

\* what does hold: the claim for every max_results >= 1
C16_ExactForPositiveLimit ==
    (utilCall.op = "search_in_logs" /\ utilCall.limit >= 1) =>
        LET all == AllMatches(utilCall.files, utilCall.term)
        IN /\ utilCall.result = SubSeq(all, 1, Min(utilCall.limit, Len(all)))
           /\ Len(utilCall.result) <= utilCall.limit

\* C17: tail_log_file(path, n) returns the last min(n, L) lines of an
\* existing file in file order, and the empty list for a missing or
\* zero-byte file.
C17_TailReturnsLastLines ==
    utilCall.op = "tail_log_file" =>
        LET file == fs[utilCall.files[1]]
        IN utilCall.result
               = IF file.exists THEN LastLinesOfFile(file.content, utilCall.limit)
                 ELSE <<>>

\* what does hold: a missing or zero-byte file gives the empty list, and so
\* does every other file
C17_TailReturnsNothing ==
    utilCall.op = "tail_log_file" => utilCall.result = <<>>

(***************************************************************************)
(* SpecSave: batches of parsed entries handed to save_to_db.               *)
(***************************************************************************)
MaxBatch == 2

LongText(n) == [i \in 1..n |-> "x"]

\* entries as _parse_log_line builds them, with messages below, at and above
\* the length limit
BatchEntry(n) ==
    [timestamp |-> n, level |-> "INFO", source |-> "frappe.log",
     message |-> LongText(n), raw |-> LongText(n)]

BatchEntries ==
    {BatchEntry(5), BatchEntry(MAX_MESSAGE_LENGTH), BatchEntry(MAX_MESSAGE_LENGTH + 1)}

Batches == UNION {[1..n -> BatchEntries] : n \in 0..MaxBatch}

\* save_to_db(logs, log_type) is called
StartSave ==
    /\ savePass.pc = "idle"
    /\ savePass.passes < MaxSavePasses
    /\ \E batch \in Batches, log_type \in {"Frappe", "Error"} :
           savePass' = [IdleSavePass EXCEPT !.pc = "loop",
                                            !.passes = savePass.passes + 1,
                                            !.batch = batch,
                                            !.log_type = log_type,
                                            !.before = logEntries.committed]
    /\ UNCHANGED <<logEntries, sweep, ingest, levelVars, logVars, settingsVars,
                   metricVars, alertVars>>

SpecSaveInit ==
    /\ settingsDoc = DefaultSettings
    /\ LevelIdle /\ LogIdle /\ SettingsIdle /\ MetricIdle /\ AlertIdle /\ SaveIdle

SaveNext == StartSave \/ SaveEntry \/ CommitSave

SpecSave == SpecSaveInit /\ [][SaveNext]_vars

RECURSIVE ExpectedDocs(_, _, _)
\* the documents of the entries of batch from i on whose insert did not fail
ExpectedDocs(batch, failed, i) ==
    IF i > Len(batch) THEN <<>>
    ELSE (IF i \in failed THEN <<>>
          ELSE <<[timestamp |-> batch[i].timestamp,
                  log_type |-> savePass.log_type,
                  log_level |-> batch[i].level,
                  source |-> batch[i].source,
                  message |-> [j \in 1..Min(Len(batch[i].message), 4000) |->
                                  batch[i].message[j]],
                  details |-> batch[i].raw]>>)
         \o ExpectedDocs(batch, failed, i + 1)

\* C9: save_to_db attempts every entry of the batch; an entry whose insert
\* fails is skipped and the others are persisted, none with a message longer
\* than 4000 characters (the first 4000 of the entry's message), and one
\* commit is issued, after the last entry was attempted.
C9_BatchSurvivesFailures ==
    LET batch == savePass.batch
        all == logEntries.committed \o logEntries.pending
    IN /\ \A k \in 1..Len(all) : Len(all[k].message) <= 4000
       /\ savePass.commits <= 1
       /\ (savePass.pc = "idle" /\ savePass.passes > 0) =>
              /\ savePass.commits = 1
              /\ savePass.attemptedAtCommit = Len(batch)
              /\ logEntries.pending = <<>>
              /\ logEntries.committed
                     = savePass.before \o ExpectedDocs(batch, savePass.failed, 1)
       /\ savePass.pc = "loop" =>
              /\ savePass.commits = 0
              /\ logEntries.committed = savePass.before

\* the first entry's insert failed and the second, 4001 characters long, was
\* stored with 4000 and committed
C9_Witness ==
    /\ savePass.pc = "idle" /\ savePass.commits = 1
    /\ savePass.failed = {1}
    /\ Len(savePass.batch) = 2
    /\ Len(savePass.batch[2].message) = 4001
    /\ Len(logEntries.committed) = Len(savePass.before) + 1
    /\ Len(logEntries.committed[Len(logEntries.committed)].message) = 4000

(***************************************************************************)
(* SpecSweep: stored log entries around the retention cutoff, swept by     *)
(* clear_old_logs.                                                         *)
(***************************************************************************)
MaxStored == 3

SWEEP_NOW == 1000

\* timestamps (in hours) one hour before, at and one hour after the cutoff
\* of 30 days, and near the time of the sweep
StoredTimestamps == {279, 280, 281, 999, 1000}

StoredEntry(ts) ==
    [timestamp |-> ts, log_type |-> "Frappe", log_level |-> "INFO",
     source |-> "frappe.log", message |-> <<"o","k">>, details |-> <<"o","k">>]

SpecSweepInit ==
    /\ settingsDoc \in {NoDoc, DefaultSettings,
                        [DefaultSettings EXCEPT !.log_retention_days = 1]}
    /\ cache = NoCache
    /\ saveResult = NoSave
    /\ readers = [r \in 1..NumReaders |-> IdleReader]
    /\ writes = 0
    /\ install = NoSetupCall(settingsDoc)
    /\ metrics = EmptyStore
    /\ clock = SWEEP_NOW
    /\ monitor = IdleMonitor(CHOOSE h \in Hosts : TRUE)
    /\ \E tss \in SeqsUpTo(StoredTimestamps, MaxStored) :
           logEntries = [pending |-> <<>>,
                         committed |-> [k \in 1..Len(tss) |-> StoredEntry(tss[k])]]
    /\ savePass = IdleSavePass
    /\ sweep = NoSweep
    /\ ingest = NoIngest
    /\ LevelIdle /\ LogIdle /\ AlertIdle

SweepNext == DoClearOldLogs \/ CleanupOldLogs

SpecSweep == SpecSweepInit /\ [][SweepNext]_vars

\* C20: clear_old_logs with cutoff = now - days deletes exactly the entries
\* whose timestamp is strictly before the cutoff, leaves every entry at or
\* after the cutoff as it was, and returns the number of entries it removed.
C20_SweepDeletesStrictlyOlder ==
    (sweep.sweeps > 0 /\ ~sweep.raised) =>
        LET cutoff == clock - sweep.days * 24
            kept == SelectSeq(sweep.before, LAMBDA e : e.timestamp >= cutoff)
        IN /\ logEntries.committed = kept
           /\ logEntries.pending = <<>>
           /\ sweep.returned = Len(sweep.before) - Len(logEntries.committed)
           /\ sweep.returned
                  = Cardinality({k \in 1..Len(sweep.before) :
                                    sweep.before[k].timestamp < cutoff})

\* a 30-day sweep removed an entry one hour older than the cutoff and kept
\* the entry exactly at the cutoff
C20_Witness ==
    /\ sweep.sweeps = 1 /\ sweep.days = 30 /\ sweep.returned = 1
    /\ \E k \in 1..Len(sweep.before) : sweep.before[k].timestamp = 279
    /\ \E k \in 1..Len(logEntries.committed) :
           logEntries.committed[k].timestamp = 280
    /\ Len(sweep.before) = 3

(***************************************************************************)
(* SpecIngest: runs of collect_all_logs over log files that grow, with     *)
(* settings whose log paths may be unset.                                  *)
(***************************************************************************)
MaxIngestFiles == 1
MaxIngestLines == 2

IngestSettings ==
    {NoDoc, DefaultSettings,
     [DefaultSettings EXCEPT !.frappe_log_path = None],
     [DefaultSettings EXCEPT !.nginx_log_path = None],
     [DefaultSettings EXCEPT !.supervisor_log_path = None]}

SpecIngestInit ==
    /\ settingsDoc \in IngestSettings
    /\ fs \in FileSystems(MaxIngestFiles, MaxIngestLines)
    /\ logs = NoLogs
    /\ utilCall = NoCall
    /\ apiCall = NoApiCall
    /\ LevelIdle /\ SettingsIdle /\ MetricIdle /\ AlertIdle /\ SaveIdle

IngestNext == DoCollectAllLogs \/ AppendLine

SpecIngest == SpecIngestInit /\ [][IngestNext]_vars

\* C22: every top-level collection entry point returns normally for every
\* state of the settings, the files and the store: a failure inside it
\* (missing settings, an unset log path, a missing file) is caught and never
\* propagates to the scheduler.  Here: no run of collect_all_logs raises.
C22_EntryPointsReturnNormally ==
    ingest.runs > 0 => ~ingest.raised

\* what does hold: collect_all_logs returns normally without a settings
\* document and with every log path set, whatever files exist
C22_ReturnsWithPathsSet ==
    (ingest.runs > 0
        /\ (settingsDoc.exists =>
               /\ ~JoinRaises(settingsDoc.frappe_log_path)
               /\ ~JoinRaises(settingsDoc.nginx_log_path)
               /\ ~JoinRaises(settingsDoc.supervisor_log_path)))
        => ~ingest.raised

\* the source name LogCollector gives the entries of a file
SourceOf(path) ==
    CASE path = "nginx/access.log" -> "nginx-access"
      [] path = "nginx/error.log" -> "nginx-error"
      [] path = "supervisord.log" -> "supervisor"
      [] OTHER -> path

\* the number of stored entries made from a line `raw` of the file at path
StoredCount(path, raw) ==
    Cardinality({k \in 1..Len(logEntries.committed) :
                    /\ logEntries.committed[k].source = SourceOf(path)
                    /\ logEntries.committed[k].details = raw})

\* the number of physical lines of the file at path that read `raw`
PhysicalCount(path, raw) ==
    LET ls == Split(fs[path].content, "\n")
    IN Cardinality({k \in 1..Len(ls) : ls[k] = raw})

\* C29: log ingestion is incremental across cycles: over any sequence of
\* collect_all_logs runs a physical log line is persisted at most once, and
\* a run over unchanged files adds no entries.
C29_IngestionIncremental ==
    /\ \A p \in Paths, raw \in {LINE_A, LINE_B} :
           fs[p].exists => StoredCount(p, raw) <= PhysicalCount(p, raw)
    /\ (ingest.runs >= 2 /\ ~ingest.changed) =>
           logEntries.committed = ingest.before

\* what does hold: every run persists again every line it reads, so a second
\* run over unchanged files doubles the stored entries
C29_EveryRunPersistsAgain ==
    (ingest.runs = 2 /\ ~ingest.changed /\ ingest.appends = 0
        /\ ~ingest.raised) =>
        \A p \in Paths, raw \in {LINE_A, LINE_B} :
            StoredCount(p, raw)
                = IF fs[p].exists /\ settingsDoc.exists
                     /\ p \notin {"syslog", "messages"}
                  THEN 2 * PhysicalCount(p, raw) ELSE 0

(***************************************************************************)
(* SpecCommand: calls of api.execute_command                               *)
(***************************************************************************)
SpecCommandInit ==
    /\ settingsDoc \in {NoDoc, DefaultSettings}
    /\ LevelIdle /\ LogIdle /\ SettingsIdle /\ MetricIdle /\ AlertIdle
    /\ SaveIdle

CommandNext == DoExecuteCommand \/ NextRequest

SpecCommand == SpecCommandInit /\ [][CommandNext]_vars

\* the inputs C23 names as failing: a command not on the allow-list, an
\* empty or whitespace-only command, a value that is not a string, a command
\* that runs into the timeout, a command that fails to start
FailingCommand ==
    \/ ~apiCall.command.isString
    \/ apiCall.command.words = <<>>
    \/ apiCall.command.words[1] \notin ALLOWED_COMMANDS
    \/ apiCall.timesOut
    \/ apiCall.spawnFails

\* C23: execute_command never raises, and for every failing input it returns
\* a payload {success: false, error}.
C23_FailuresAreStructured ==
    apiCall.op = "execute_command" =>
        /\ ~apiCall.result.raised
        /\ FailingCommand =>
               /\ apiCall.result.payload # None
               /\ apiCall.result.payload.success = FALSE

\* what does hold: the claim for every command that is a string with at
\* least one word
C23_StructuredForWords ==
    (apiCall.op = "execute_command" /\ apiCall.command.isString
        /\ apiCall.command.words # <<>>) =>
        /\ ~apiCall.result.raised
        /\ FailingCommand => apiCall.result.payload.success = FALSE

\* C24: execute_command never causes a program outside the allow-list to be
\* executed: either the command is rejected and nothing runs, or every
\* program it runs is on the allow-list, also when the string chains
\* further commands after an allowed first word.
C24_OnlyAllowedProgramsRun ==
    apiCall.op = "execute_command" =>
        \A k \in 1..Len(apiCall.result.executed) :
            apiCall.result.executed[k] \in ALLOWED_COMMANDS

\* what does hold: the first program run is on the allow-list, and a command
\* whose first word is not runs nothing
C24_FirstProgramAllowed ==
    apiCall.op = "execute_command" =>
        /\ apiCall.result.executed # <<>> =>
               apiCall.result.executed[1] \in ALLOWED_COMMANDS
        /\ (apiCall.command.words # <<>>
               /\ apiCall.command.words[1] \notin ALLOWED_COMMANDS) =>
               apiCall.result.executed = <<>>

(***************************************************************************)
(* SpecLongLines: one log file whose lines may be longer than the 300      *)
(* bytes that _read_log_file reckons for a line, read by LogCollector.     *)
(***************************************************************************)
MaxLongFileLines == 2

\* a line of 327 characters
LONG_LINE == LINE_B \o LongText(COLLECTOR_BYTES_PER_LINE)

LongLineKinds == {LINE_A, LONG_LINE}

\* one file, of one or more lines, without a newline at its end
LongFileSystems(maxFileLines) ==
    {[p \in Paths |-> IF p = q THEN File(JoinWith(segs, <<"\n">>)) ELSE Missing] :
        q \in Paths \ {"syslog", "messages"},
        segs \in UNION {[1..n -> LongLineKinds] : n \in 1..maxFileLines}}

SpecLongLinesInit ==
    /\ fs \in LongFileSystems(MaxLongFileLines)
    /\ logs = NoLogs
    /\ utilCall = NoCall
    /\ apiCall = NoApiCall
    /\ settingsDoc = DefaultSettings
    /\ LevelIdle /\ SettingsIdle /\ MetricIdle /\ AlertIdle /\ SaveIdle

LongLinesNext ==
    \/ DoReadLogFile
    \/ DoCollectFrappeLogs
    \/ DoCollectErrorLogs
    \/ DoCollectNginxLogs
    \/ DoCollectSupervisorLogs

SpecLongLines == SpecLongLinesInit /\ [][LongLinesNext]_vars

\* the physical lines of the files that exist
PhysicalLines ==
    UNION {SeqToSet(Split(fs[p].content, "\n")) : p \in {q \in Paths : fs[q].exists}}

IsSuffixOf(a, b) ==
    Len(a) <= Len(b) /\ a = SubSeq(b, Len(b) - Len(a) + 1, Len(b))

\* C27: every entry LogCollector produces corresponds to one complete
\* physical line of the source file: its raw field equals a whole line of
\* the file and is never a fragment cut by the seek position, also when the
\* file is larger than the byte budget.
C27_RawIsWholeLine ==
    \A k \in 1..Len(logs.result) : logs.result[k].raw \in PhysicalLines

\* what does hold: raw is the end of a physical line (the whole line when
\* the seek position falls on the start of a line)
C27_RawIsEndOfLine ==
    \A k \in 1..Len(logs.result) :
        \E l \in PhysicalLines : IsSuffixOf(logs.result[k].raw, l)

(***************************************************************************)
(* SpecInstall: setup calls in any order, between writes of the operator   *)
(***************************************************************************)
SpecInstallInit ==
    /\ SettingsInit
    /\ LevelIdle /\ LogIdle /\ MetricIdle /\ AlertIdle /\ SaveIdle

InstallNext ==
    \/ AfterInstall
    \/ SetupMonitoring
    \/ CreateDefaultSettings
    \/ SaveSettings
    \/ OnUpdate

SpecInstall == SpecInstallInit /\ [][InstallNext]_vars

====
